---- MODULE Spec2Model ----
(***************************************************************************)
(* State-machine model of the NivoAdventure simulation core: Player,       *)
(* Enemy, Platform, Level and the Game frame loop.                         *)
(*                                                                         *)
(* Units.  Positions and velocities are fixed-point numbers in tenths of a *)
(* pixel (32 px = 320, gravity 0.8 px/frame = 8), so that every vertical   *)
(* quantity of the source is an integer.  The two multiplicative damping   *)
(* factors (0.85 and 0.98) are applied as exact fractions and rounded      *)
(* toward zero to the next tenth.  Health is in health points, time in     *)
(* milliseconds.                                                            *)
(***************************************************************************)
EXTENDS Integers, Sequences, FiniteSets, TLC

VARIABLES
    player,      \* the Player object (record of its fields)
    platforms,   \* Level.platforms, a sequence of Platform records
    enemies,     \* Level.enemies, a sequence of Enemy records
    level,       \* the remaining fields of the Level object
    game,        \* the fields of the Game object
    now,         \* performance.now(), the value getTimestamp() returns
    lastOp,      \* name of the operation performed by the last step
    lastArg,     \* its argument
    lastRet,     \* its return value
    input,       \* the InputManager object
    events,      \* number of keyboard events delivered so far
    standTime,   \* frame time accumulated while the player stands on a crumbling platform
    collectibles, \* Level.collectibles, a sequence of Collectible records
    checkpoints, \* Level.checkpoints, a sequence of Checkpoint records
    camera,      \* the Camera object
    ghost        \* history of the run: what was reported, stored and counted so far

vars == <<player, platforms, enemies, level, game, now, lastOp, lastArg, lastRet,
          input, events, standTime, collectibles, checkpoints, camera, ghost>>

itemVars == <<collectibles, checkpoints, camera, ghost>>

\* everything but the player, the clock and the record of the last call
worldVars == <<platforms, enemies, level, game, input, events, standTime, itemVars>>

----------------------------------------------------------------------------
(* Bounds of the model *)

MaxTime == 1600          \* the clock stops advancing at this many ms
MaxFallY == 10200        \* no further frame once the player is this far down (tenths of px)
MaxKeyEvents == 2        \* number of keyboard events delivered in a run
MaxPlayTime == 1250      \* the game loop stops at this many ms

----------------------------------------------------------------------------
(* utils.js *)

Min(a, b) == IF a < b THEN a ELSE b
Max(a, b) == IF a > b THEN a ELSE b
Abs(a) == IF a < 0 THEN -a ELSE a

\* value * num / den, rounded toward zero (fixed-point product)
MulFrac(value, num, den) ==
    IF value >= 0 THEN (value * num) \div den ELSE -(((-value) * num) \div den)

clamp(value, min, max) == Min(Max(value, min), max)

checkCollision(rect1, rect2) ==
    /\ rect1.x < rect2.x + rect2.width
    /\ rect1.x + rect1.width > rect2.x
    /\ rect1.y < rect2.y + rect2.height
    /\ rect1.y + rect1.height > rect2.y

\* (x2-x1)^2 + (y2-y1)^2: distance(...) <= r iff DistanceSq(...) <= r*r for r >= 0
DistanceSq(x1, y1, x2, y2) == (x2 - x1) * (x2 - x1) + (y2 - y1) * (y2 - y1)

----------------------------------------------------------------------------
(* Player (player.js) *)

PlayerWidth == 320
PlayerHeight == 480
PlayerSpeed == 50
JumpPower == 150
PlayerGravity == 8
PlayerMaxFallSpeed == 150
MaxHealth == 100
InvulnerabilityTime == 1000
WorldWidth == 20000      \* constrainToWorld's assumed world width (2000 px)
WorldHeight == 10000     \* constrainToWorld's assumed world height (1000 px)

NewPlayer(x, y) ==
    [x |-> x, y |-> y, width |-> PlayerWidth, height |-> PlayerHeight,
     velocityX |-> 0, velocityY |-> 0,
     isGrounded |-> FALSE, canDoubleJump |-> FALSE, hasDoubleJumped |-> FALSE,
     facing |-> 1,
     health |-> MaxHealth, invulnerable |-> FALSE, lastDamageTime |-> 0,
     currentAnimation |-> "idle",
     keys |-> [left |-> FALSE, right |-> FALSE, jump |-> FALSE, jumpPressed |-> FALSE],
     checkpointX |-> x, checkpointY |-> y, lastCheckpointHealth |-> MaxHealth]

jump(p) == [p EXCEPT !.velocityY = -JumpPower, !.isGrounded = FALSE]

\* variant: the double jump does not use up the charge
HandleInput_Unconsumed(p) ==
    LET p1 == IF p.keys.left
              THEN [p EXCEPT !.velocityX = @ - MulFrac(PlayerSpeed, 3, 10), !.facing = -1]
              ELSE p
        p2 == IF p1.keys.right
              THEN [p1 EXCEPT !.velocityX = @ + MulFrac(PlayerSpeed, 3, 10), !.facing = 1]
              ELSE p1
        p3 == IF p2.keys.jumpPressed /\ ~p2.keys.jump
              THEN IF p2.isGrounded
                   THEN [jump(p2) EXCEPT !.canDoubleJump = TRUE, !.hasDoubleJumped = FALSE]
                   ELSE IF p2.canDoubleJump /\ ~p2.hasDoubleJumped
                        THEN jump(p2)
                        ELSE p2
              ELSE p2
    IN  [p3 EXCEPT !.keys.jump = p3.keys.jumpPressed]

HandleInput(p) ==
    LET p1 == IF p.keys.left
              THEN [p EXCEPT !.velocityX = @ - MulFrac(PlayerSpeed, 3, 10), !.facing = -1]
              ELSE p
        p2 == IF p1.keys.right
              THEN [p1 EXCEPT !.velocityX = @ + MulFrac(PlayerSpeed, 3, 10), !.facing = 1]
              ELSE p1
        p3 == IF p2.keys.jumpPressed /\ ~p2.keys.jump
              THEN IF p2.isGrounded
                   THEN [jump(p2) EXCEPT !.canDoubleJump = TRUE, !.hasDoubleJumped = FALSE]
                   ELSE IF p2.canDoubleJump /\ ~p2.hasDoubleJumped
                        THEN [jump(p2) EXCEPT !.hasDoubleJumped = TRUE, !.canDoubleJump = FALSE]
                        ELSE p2
              ELSE p2
    IN  [p3 EXCEPT !.keys.jump = p3.keys.jumpPressed]

PlayerUpdatePhysics(p) ==
    LET vy1 == IF ~p.isGrounded THEN p.velocityY + PlayerGravity ELSE p.velocityY
        vx1 == IF p.isGrounded THEN MulFrac(p.velocityX, 85, 100)
                               ELSE MulFrac(p.velocityX, 98, 100)
        vx2 == clamp(vx1, -PlayerSpeed, PlayerSpeed)
        vy2 == clamp(vy1, -MulFrac(JumpPower, 12, 10), PlayerMaxFallSpeed)
    IN  [p EXCEPT !.velocityX = vx2, !.velocityY = vy2,
                  !.x = @ + vx2, !.y = @ + vy2]

\* the body of the loop of handlePlatformCollisions for one platform
PlayerResolvePlatform(p, platform) ==
    IF checkCollision(p, platform)
    THEN LET overlapX == Min(p.x + p.width - platform.x, platform.x + platform.width - p.x)
             overlapY == Min(p.y + p.height - platform.y, platform.y + platform.height - p.y)
         IN  IF overlapX < overlapY
             THEN IF p.x < platform.x
                  THEN [p EXCEPT !.x = platform.x - p.width, !.velocityX = 0]
                  ELSE [p EXCEPT !.x = platform.x + platform.width, !.velocityX = 0]
             ELSE IF p.y < platform.y
                  THEN [p EXCEPT !.y = platform.y - p.height, !.velocityY = 0,
                                 !.isGrounded = TRUE,
                                 !.canDoubleJump = FALSE, !.hasDoubleJumped = FALSE]
                  ELSE [p EXCEPT !.y = platform.y + platform.height, !.velocityY = 0]
    ELSE p

RECURSIVE PlayerResolveFrom(_, _, _)
PlayerResolveFrom(p, plats, i) ==
    IF i > Len(plats) THEN p
    ELSE PlayerResolveFrom(PlayerResolvePlatform(p, plats[i]), plats, i + 1)

PlayerHandlePlatformCollisions(p, plats) ==
    PlayerResolveFrom([p EXCEPT !.isGrounded = FALSE], plats, 1)

PlayerUpdateAnimation(p) ==
    LET newAnimation == IF ~p.isGrounded
                        THEN (IF p.velocityY < 0 THEN "jump" ELSE "fall")
                        ELSE IF Abs(p.velocityX) > 5 THEN "walk" ELSE "idle"
    IN  [p EXCEPT !.currentAnimation = newAnimation]

\* variant: the window test is strict
UpdateInvulnerability_Strict(p, currentTime) ==
    IF p.invulnerable /\ currentTime - p.lastDamageTime > InvulnerabilityTime
    THEN [p EXCEPT !.invulnerable = FALSE]
    ELSE p

UpdateInvulnerability(p, currentTime) ==
    IF p.invulnerable /\ currentTime - p.lastDamageTime >= InvulnerabilityTime
    THEN [p EXCEPT !.invulnerable = FALSE]
    ELSE p

\* variant: the invulnerability guard is missing
PlayerTakeDamage_NoGuard(p, damage, currentTime) ==
    LET h == Max(0, p.health - damage)
    IN  [p |-> IF h > 0
               THEN [p EXCEPT !.health = h, !.invulnerable = TRUE,
                              !.lastDamageTime = currentTime]
               ELSE [p EXCEPT !.health = h],
         ret |-> TRUE]

\* takeDamage returns a boolean; the result is the pair (player after, value returned)
PlayerTakeDamage(p, damage, currentTime) ==
    IF p.invulnerable THEN [p |-> p, ret |-> FALSE]
    ELSE LET h == Max(0, p.health - damage)
         IN  [p |-> IF h > 0
                    THEN [p EXCEPT !.health = h, !.invulnerable = TRUE,
                                   !.lastDamageTime = currentTime]
                    ELSE [p EXCEPT !.health = h],
              ret |-> TRUE]

ConstrainToWorld(p, currentTime) ==
    LET p1 == [p EXCEPT !.x = clamp(p.x, 0, WorldWidth - p.width)]
    IN  IF p1.y > WorldHeight
        THEN PlayerTakeDamage(p1, p1.health, currentTime).p
        ELSE p1

PlayerUpdate(p, plats, currentTime) ==
    ConstrainToWorld(
        UpdateInvulnerability(
            PlayerUpdateAnimation(
                PlayerHandlePlatformCollisions(
                    PlayerUpdatePhysics(HandleInput(p)), plats)),
            currentTime),
        currentTime)

\* variant: the cap at maxHealth is missing
heal_NoCap(p, amount) == [p EXCEPT !.health = p.health + amount]

heal(p, amount) == [p EXCEPT !.health = Min(MaxHealth, p.health + amount)]

isDead(p) == p.health <= 0

setCheckpoint(p, x, y) ==
    [p EXCEPT !.checkpointX = x, !.checkpointY = y, !.lastCheckpointHealth = p.health]

\* variant: respawn is a full heal
respawn_FullHeal(p, currentTime) ==
    [p EXCEPT !.x = p.checkpointX, !.y = p.checkpointY,
              !.velocityX = 0, !.velocityY = 0,
              !.health = MaxHealth,
              !.invulnerable = TRUE, !.lastDamageTime = currentTime,
              !.isGrounded = FALSE]

\* variant: respawn moves the player and leaves its health as it is
respawn_KeepHealth(p, currentTime) ==
    [p EXCEPT !.x = p.checkpointX, !.y = p.checkpointY,
              !.velocityX = 0, !.velocityY = 0,
              !.invulnerable = TRUE, !.lastDamageTime = currentTime,
              !.isGrounded = FALSE]

respawn(p, currentTime) ==
    [p EXCEPT !.x = p.checkpointX, !.y = p.checkpointY,
              !.velocityX = 0, !.velocityY = 0,
              !.health = p.lastCheckpointHealth,
              !.invulnerable = TRUE, !.lastDamageTime = currentTime,
              !.isGrounded = FALSE]

PlayerReset(p, x, y) ==
    [p EXCEPT !.x = x, !.y = y, !.velocityX = 0, !.velocityY = 0,
              !.health = MaxHealth, !.invulnerable = FALSE, !.isGrounded = FALSE,
              !.facing = 1, !.checkpointX = x, !.checkpointY = y,
              !.lastCheckpointHealth = MaxHealth,
              !.canDoubleJump = FALSE, !.hasDoubleJumped = FALSE]

setInput(p, key, pressed) ==
    IF key = "jump" THEN [p EXCEPT !.keys.jumpPressed = pressed]
    ELSE IF key = "left" THEN [p EXCEPT !.keys.left = pressed]
    ELSE [p EXCEPT !.keys.right = pressed]

----------------------------------------------------------------------------
(* Platform *)

MoveSpeed == 10
MoveDistance == 1000
CrumbleDelay == 1000
BounceDuration == 200
BounceForce == 200

NewPlatform(x, y, width, height, type) ==
    [x |-> x, y |-> y, width |-> width, height |-> height,
     originalX |-> x, originalY |-> y, type |-> type,
     moveDirection |-> 1, moveAxis |-> "horizontal",
     crumbleTimer |-> 0, isCrumbling |-> FALSE, isPlayerOn |-> FALSE,
     bounceActive |-> FALSE, bounceTimer |-> 0]

\* variant: the platform turns only once it has passed a bound
updateMovement_Late(pl) ==
    IF pl.moveAxis = "horizontal"
    THEN LET nx == pl.x + pl.moveDirection * MoveSpeed
         IN  IF nx > pl.originalX + MoveDistance
             THEN [pl EXCEPT !.x = pl.originalX + MoveDistance, !.moveDirection = -1]
             ELSE IF nx < pl.originalX - MoveDistance
                  THEN [pl EXCEPT !.x = pl.originalX - MoveDistance, !.moveDirection = 1]
                  ELSE [pl EXCEPT !.x = nx]
    ELSE LET ny == pl.y + pl.moveDirection * MoveSpeed
         IN  IF ny > pl.originalY + MoveDistance
             THEN [pl EXCEPT !.y = pl.originalY + MoveDistance, !.moveDirection = -1]
             ELSE IF ny < pl.originalY - MoveDistance
                  THEN [pl EXCEPT !.y = pl.originalY - MoveDistance, !.moveDirection = 1]
                  ELSE [pl EXCEPT !.y = ny]

updateMovement(pl) ==
    IF pl.moveAxis = "horizontal"
    THEN LET nx == pl.x + pl.moveDirection * MoveSpeed
         IN  IF nx >= pl.originalX + MoveDistance
             THEN [pl EXCEPT !.x = pl.originalX + MoveDistance, !.moveDirection = -1]
             ELSE IF nx <= pl.originalX - MoveDistance
                  THEN [pl EXCEPT !.x = pl.originalX - MoveDistance, !.moveDirection = 1]
                  ELSE [pl EXCEPT !.x = nx]
    ELSE LET ny == pl.y + pl.moveDirection * MoveSpeed
         IN  IF ny >= pl.originalY + MoveDistance
             THEN [pl EXCEPT !.y = pl.originalY + MoveDistance, !.moveDirection = -1]
             ELSE IF ny <= pl.originalY - MoveDistance
                  THEN [pl EXCEPT !.y = pl.originalY - MoveDistance, !.moveDirection = 1]
                  ELSE [pl EXCEPT !.y = ny]

startCrumbling(pl) == [pl EXCEPT !.isCrumbling = TRUE]

updateCrumbling(pl, deltaTime, p) ==
    LET wasPlayerOn == pl.isPlayerOn
        on == /\ checkCollision(p, pl)
              /\ p.y + p.height <= pl.y + 100
              /\ p.velocityY >= 0
        pl1 == [pl EXCEPT !.isPlayerOn = on]
        pl2 == IF on /\ ~wasPlayerOn /\ ~pl1.isCrumbling
               THEN [pl1 EXCEPT !.crumbleTimer = 0] ELSE pl1
    IN  IF pl2.isPlayerOn /\ ~pl2.isCrumbling
        THEN LET pl3 == [pl2 EXCEPT !.crumbleTimer = @ + deltaTime]
             IN  IF pl3.crumbleTimer >= CrumbleDelay THEN startCrumbling(pl3) ELSE pl3
        ELSE pl2

updateBouncy(pl, deltaTime) ==
    IF pl.bounceActive
    THEN LET t == pl.bounceTimer + deltaTime
         IN  IF t >= BounceDuration
             THEN [pl EXCEPT !.bounceTimer = t, !.bounceActive = FALSE]
             ELSE [pl EXCEPT !.bounceTimer = t]
    ELSE pl

\* Platform.update; the decay particles it also ages are render-only state
PlatformUpdate(pl, deltaTime, p) ==
    CASE pl.type = "moving" -> updateMovement(pl)
      [] pl.type = "crumbling" -> updateCrumbling(pl, deltaTime, p)
      [] pl.type = "bouncy" -> updateBouncy(pl, deltaTime)
      [] OTHER -> pl

providesCollision(pl) == ~pl.isCrumbling

PlatformReset(pl) ==
    [pl EXCEPT !.x = pl.originalX, !.y = pl.originalY, !.moveDirection = 1,
               !.crumbleTimer = 0, !.isCrumbling = FALSE, !.isPlayerOn = FALSE,
               !.bounceActive = FALSE]

----------------------------------------------------------------------------
(* Enemy (input.js) *)

EnemyWidth == 280
EnemyHeight == 320
EnemyGravity == 8
EnemyMaxFallSpeed == 150
EnemyMaxUpSpeed == 200
EnemySpeed == 15
PatrolDistance == 1000
DetectionRange == 1500
ChaseSpeed == 25
EnemyMaxHealth == 50
EnemyDamage == 20
MaxTurnCooldown == 500
DeathDuration == 1000
EdgeLookAhead == 200
EdgeLookBelow == 100
StompTolerance == 100
StompBounce == 80

NewEnemy(x, y, type) ==
    [x |-> x, y |-> y, width |-> EnemyWidth, height |-> EnemyHeight,
     velocityX |-> 0, velocityY |-> 0, type |-> type,
     direction |-> 1, startX |-> x, isChasing |-> FALSE,
     health |-> EnemyMaxHealth, isAlive |-> TRUE,
     currentAnimation |-> "walk",
     isGrounded |-> FALSE, canTurnAround |-> TRUE, turnCooldown |-> 0,
     deathTimer |-> 0, shouldRemove |-> FALSE]

\* variant: the turn does not start a cooldown
changeDirection_NoCooldown(e) ==
    IF e.canTurnAround
    THEN [e EXCEPT !.direction = -e.direction]
    ELSE e

changeDirection(e) ==
    IF e.canTurnAround
    THEN [e EXCEPT !.direction = -e.direction, !.canTurnAround = FALSE,
                   !.turnCooldown = MaxTurnCooldown]
    ELSE e

patrol(e) ==
    LET e1 == [e EXCEPT !.currentAnimation = "walk"]
        distanceFromStart == e1.x - e1.startX
        e2 == IF distanceFromStart >= PatrolDistance /\ e1.direction > 0
              THEN changeDirection(e1)
              ELSE IF distanceFromStart <= -PatrolDistance /\ e1.direction < 0
                   THEN changeDirection(e1)
                   ELSE e1
    IN  [e2 EXCEPT !.velocityX = e2.direction * EnemySpeed]

chase(e, p) ==
    LET playerCenter == p.x + p.width \div 2
        enemyCenter == e.x + e.width \div 2
        dir == IF playerCenter < enemyCenter THEN -1
               ELSE IF playerCenter > enemyCenter THEN 1
               ELSE e.direction
    IN  [e EXCEPT !.currentAnimation = "chase", !.direction = dir,
                  !.velocityX = dir * ChaseSpeed]

\* distance between the two centers, squared
CenterDistanceSq(e, p) ==
    DistanceSq(e.x + e.width \div 2, e.y + e.height \div 2,
               p.x + p.width \div 2, p.y + p.height \div 2)

\* detectionRange * 1.5
ChaseExitRange == MulFrac(DetectionRange, 15, 10)

\* variant: the detection test is strict
updateAI_Strict(e, p) ==
    IF isDead(p)
    THEN patrol([e EXCEPT !.isChasing = FALSE])
    ELSE LET d2 == CenterDistanceSq(e, p)
             e1 == IF d2 < DetectionRange * DetectionRange
                   THEN chase([e EXCEPT !.isChasing = TRUE], p)
                   ELSE IF e.isChasing /\ d2 > ChaseExitRange * ChaseExitRange
                        THEN [e EXCEPT !.isChasing = FALSE]
                        ELSE e
         IN  IF ~e1.isChasing THEN patrol(e1) ELSE e1

updateAI(e, p) ==
    IF isDead(p)
    THEN patrol([e EXCEPT !.isChasing = FALSE])
    ELSE LET d2 == CenterDistanceSq(e, p)
             e1 == IF d2 <= DetectionRange * DetectionRange
                   THEN chase([e EXCEPT !.isChasing = TRUE], p)
                   ELSE IF e.isChasing /\ d2 > ChaseExitRange * ChaseExitRange
                        THEN [e EXCEPT !.isChasing = FALSE]
                        ELSE e
         IN  IF ~e1.isChasing THEN patrol(e1) ELSE e1

updateTurnCooldown(e, deltaTime) ==
    IF e.turnCooldown > 0
    THEN LET t == e.turnCooldown - deltaTime
         IN  [e EXCEPT !.turnCooldown = t,
                       !.canTurnAround = IF t <= 0 THEN TRUE ELSE @]
    ELSE e

EnemyUpdatePhysics(e) ==
    LET vy1 == IF ~e.isGrounded THEN e.velocityY + EnemyGravity ELSE e.velocityY
        vy2 == clamp(vy1, -EnemyMaxUpSpeed, EnemyMaxFallSpeed)
    IN  [e EXCEPT !.velocityY = vy2, !.x = @ + e.velocityX, !.y = @ + vy2]

\* the body of the loop of Enemy.handlePlatformCollisions for one platform;
\* s is the pair (enemy, hitWall)
EnemyResolvePlatform(s, platform) ==
    LET e == s.e IN
    IF checkCollision(e, platform)
    THEN LET overlapX == Min(e.x + e.width - platform.x, platform.x + platform.width - e.x)
             overlapY == Min(e.y + e.height - platform.y, platform.y + platform.height - e.y)
         IN  IF overlapX < overlapY
             THEN [e |-> [e EXCEPT !.x = IF e.x < platform.x
                                         THEN platform.x - e.width
                                         ELSE platform.x + platform.width,
                                    !.velocityX = 0],
                   hitWall |-> TRUE]
             ELSE IF e.y < platform.y
                  THEN [s EXCEPT !.e = [e EXCEPT !.y = platform.y - e.height,
                                                 !.velocityY = 0, !.isGrounded = TRUE]]
                  ELSE [s EXCEPT !.e = [e EXCEPT !.y = platform.y + platform.height,
                                                 !.velocityY = 0]]
    ELSE s

RECURSIVE EnemyResolveFrom(_, _, _)
EnemyResolveFrom(s, plats, i) ==
    IF i > Len(plats) THEN s
    ELSE EnemyResolveFrom(EnemyResolvePlatform(s, plats[i]), plats, i + 1)

\* the collision loop of Enemy.handlePlatformCollisions (before the direction changes)
EnemyResolveAll(e, plats) ==
    EnemyResolveFrom([e |-> [e EXCEPT !.isGrounded = FALSE], hitWall |-> FALSE], plats, 1)

checkForEdges(e, plats) ==
    LET futureX == e.x + e.direction * EdgeLookAhead
        futureY == e.y + e.height + EdgeLookBelow
        foundGround == \E i \in 1..Len(plats) :
                          /\ futureX + e.width > plats[i].x
                          /\ futureX < plats[i].x + plats[i].width
                          /\ futureY > plats[i].y
                          /\ futureY < plats[i].y + plats[i].height
    IN  IF ~foundGround THEN changeDirection(e) ELSE e

EnemyHandlePlatformCollisions(e, plats) ==
    LET s == EnemyResolveAll(e, plats)
        e1 == IF s.hitWall /\ ~s.e.isChasing THEN changeDirection(s.e) ELSE s.e
    IN  IF e1.isGrounded /\ ~e1.isChasing THEN checkForEdges(e1, plats) ELSE e1

\* variant: the enemy is flagged only once the timer has passed the duration
updateDeath_Late(e, deltaTime) ==
    LET t == e.deathTimer + deltaTime
    IN  [e EXCEPT !.currentAnimation = "death", !.deathTimer = t,
                  !.shouldRemove = IF t > DeathDuration THEN TRUE ELSE @]

updateDeath(e, deltaTime) ==
    LET t == e.deathTimer + deltaTime
    IN  [e EXCEPT !.currentAnimation = "death", !.deathTimer = t,
                  !.shouldRemove = IF t >= DeathDuration THEN TRUE ELSE @]

EnemyUpdate(e, deltaTime, plats, p) ==
    IF ~e.isAlive THEN updateDeath(e, deltaTime)
    ELSE updateTurnCooldown(
             EnemyHandlePlatformCollisions(EnemyUpdatePhysics(updateAI(e, p)), plats),
             deltaTime)

die(e) == [e EXCEPT !.isAlive = FALSE, !.velocityX = 0, !.deathTimer = 0]

EnemyTakeDamage(e, damage) ==
    IF ~e.isAlive THEN [e |-> e, ret |-> FALSE]
    ELSE LET e1 == [e EXCEPT !.health = Max(0, e.health - damage)]
         IN  IF e1.health <= 0 THEN [e |-> die(e1), ret |-> TRUE]
             ELSE [e |-> e1, ret |-> FALSE]

\* variant: the stomp test ignores the direction of the player's movement
EnemyCheckPlayerCollision_AnyDirection(e, p, currentTime) ==
    IF ~e.isAlive \/ isDead(p) THEN [e |-> e, p |-> p, ret |-> FALSE]
    ELSE IF checkCollision(e, p)
         THEN LET playerBottom == p.y + p.height
                  enemyTop == e.y
              IN  IF playerBottom <= enemyTop + StompTolerance
                  THEN [e |-> EnemyTakeDamage(e, EnemyMaxHealth).e,
                        p |-> [p EXCEPT !.velocityY = -StompBounce],
                        ret |-> FALSE]
                  ELSE LET r == PlayerTakeDamage(p, EnemyDamage, currentTime)
                       IN  [e |-> e, p |-> r.p, ret |-> r.ret]
         ELSE [e |-> e, p |-> p, ret |-> FALSE]

\* checkPlayerCollision changes the enemy and the player and returns a boolean
EnemyCheckPlayerCollision(e, p, currentTime) ==
    IF ~e.isAlive \/ isDead(p) THEN [e |-> e, p |-> p, ret |-> FALSE]
    ELSE IF checkCollision(e, p)
         THEN LET playerBottom == p.y + p.height
                  enemyTop == e.y
              IN  IF playerBottom <= enemyTop + StompTolerance /\ p.velocityY > 0
                  THEN [e |-> EnemyTakeDamage(e, EnemyMaxHealth).e,
                        p |-> [p EXCEPT !.velocityY = -StompBounce],
                        ret |-> FALSE]
                  ELSE LET r == PlayerTakeDamage(p, EnemyDamage, currentTime)
                       IN  [e |-> e, p |-> r.p, ret |-> r.ret]
         ELSE [e |-> e, p |-> p, ret |-> FALSE]

EnemyReset(e) ==
    [e EXCEPT !.x = e.startX, !.velocityX = 0, !.velocityY = 0,
              !.health = EnemyMaxHealth, !.isAlive = TRUE, !.isChasing = FALSE,
              !.direction = 1, !.deathTimer = 0, !.shouldRemove = FALSE,
              !.canTurnAround = TRUE, !.turnCooldown = 0]

----------------------------------------------------------------------------
(* InputManager (input.js) *)

NoKeys == [left |-> FALSE, right |-> FALSE, jump |-> FALSE, pause |-> FALSE]

NewInputManager ==
    [keys |-> NoKeys, previousKeys |-> NoKeys,
     mobileControls |-> [left |-> FALSE, right |-> FALSE, jump |-> FALSE]]

handleKeyDown(im, action) == [im EXCEPT !.keys[action] = TRUE]

handleKeyUp(im, action) == [im EXCEPT !.keys[action] = FALSE]

InputUpdate(im) ==
    [im EXCEPT !.previousKeys = im.keys,
               !.keys = [im.keys EXCEPT !.left = @ \/ im.mobileControls.left,
                                        !.right = @ \/ im.mobileControls.right,
                                        !.jump = @ \/ im.mobileControls.jump]]

isPressed(im, action) == im.keys[action]

isJustPressed(im, action) == im.keys[action] /\ ~im.previousKeys[action]

isJustReleased(im, action) == ~im.keys[action] /\ im.previousKeys[action]

----------------------------------------------------------------------------
(* Collectible (part_000) *)

CollectibleSize == 240
MagneticRange == 600
MagneticSpeed == 30
CollectionDuration == 500
CollectionFloat == 20

\* Math.sin(bobOffset) * bobHeight after k updates (bobOffset = 0.05 k,
\* bobHeight = 8 px), rounded to the tenth of a pixel
BobTable ==
    <<4, 8, 12, 16, 20, 24, 27, 31, 35, 38, 42, 45, 48, 52, 55, 57, 60, 63, 65, 67,
      69, 71, 73, 75, 76, 77, 78, 79, 79, 80, 80, 80, 80, 79, 79, 78, 77, 76, 74, 73>>

\* the value and the effect of each type (types table and getCollectionEffect)
TypeValue(type) ==
    IF type = "gem" THEN 50
    ELSE IF type = "health" THEN 25
    ELSE IF type = "star" THEN 100
    ELSE 10

getCollectionEffect(type) ==
    IF type = "health" THEN "health"
    ELSE IF type = "star" THEN "special"
    ELSE "score"

NewCollectible(x, y, type) ==
    [x |-> x, y |-> y, originalY |-> y, width |-> CollectibleSize,
     height |-> CollectibleSize, type |-> type, value |-> TypeValue(type),
     collected |-> FALSE, animActive |-> FALSE, animTimer |-> 0,
     bobCount |-> 0, isBeingAttracted |-> FALSE]

\* Math.sqrt on the fixed-point grid: the largest r with r * r <= n
RECURSIVE SqrtBetween(_, _, _)
SqrtBetween(n, lo, hi) ==
    IF lo >= hi THEN lo
    ELSE LET mid == (lo + hi + 1) \div 2
         IN  IF mid * mid <= n THEN SqrtBetween(n, mid, hi)
             ELSE SqrtBetween(n, lo, mid - 1)

\* (no distance of the model exceeds 40000 tenths of a pixel)
Sqrt(n) == SqrtBetween(n, 0, Min(n, 40000))

updateBobbing(c) ==
    [c EXCEPT !.bobCount = @ + 1,
              !.y = c.originalY + BobTable[Min(c.bobCount + 1, Len(BobTable))]]

updateMagneticAttraction(c, p) ==
    LET dx == (p.x + p.width \div 2) - (c.x + c.width \div 2)
        dy == (p.y + p.height \div 2) - (c.y + c.height \div 2)
        d2 == dx * dx + dy * dy
    IN  IF d2 <= MagneticRange * MagneticRange
        THEN LET dist == Sqrt(d2)
                 \* speed = magneticSpeed * ((range - dist) / range) * 2
                 num == 2 * MagneticSpeed * (MagneticRange - dist)
                 den == MagneticRange * dist
             IN  IF dist > 0
                 THEN [c EXCEPT !.isBeingAttracted = TRUE,
                                !.x = @ + MulFrac(dx, num, den),
                                !.y = @ + MulFrac(dy, num, den)]
                 ELSE [c EXCEPT !.isBeingAttracted = TRUE]
        ELSE [c EXCEPT !.isBeingAttracted = FALSE]

updateCollectionAnimation(c, deltaTime) ==
    LET t == c.animTimer + deltaTime
    IN  IF t >= CollectionDuration
        THEN [c EXCEPT !.animTimer = t, !.animActive = FALSE]
        ELSE [c EXCEPT !.animTimer = t, !.y = @ - CollectionFloat]

CollectibleUpdate(c, deltaTime, p) ==
    IF c.collected /\ ~c.animActive THEN c
    ELSE LET c1 == updateBobbing(c)
             c2 == IF ~c1.collected THEN updateMagneticAttraction(c1, p) ELSE c1
         IN  IF c2.animActive THEN updateCollectionAnimation(c2, deltaTime) ELSE c2

\* the value collect and checkPlayerCollision return when nothing is collected
Null == [type |-> "null", value |-> 0, effect |-> "null"]

\* variant: collect reports again on an item that is already collected
collect_NoGuard(c) ==
    [c |-> [c EXCEPT !.collected = TRUE, !.animActive = TRUE, !.animTimer = 0],
     ret |-> [type |-> c.type, value |-> c.value,
              effect |-> getCollectionEffect(c.type)]]

\* collect changes the item and returns a collection result or null
collect(c) ==
    IF c.collected THEN [c |-> c, ret |-> Null]
    ELSE [c |-> [c EXCEPT !.collected = TRUE, !.animActive = TRUE, !.animTimer = 0],
          ret |-> [type |-> c.type, value |-> c.value,
                   effect |-> getCollectionEffect(c.type)]]

CollectibleCheckPlayerCollision(c, p) ==
    IF c.collected THEN [c |-> c, ret |-> Null]
    ELSE IF checkCollision(c, p) THEN collect(c)
    ELSE [c |-> c, ret |-> Null]

CollectibleReset(c) ==
    [c EXCEPT !.collected = FALSE, !.animActive = FALSE, !.y = c.originalY,
              !.bobCount = 0, !.isBeingAttracted = FALSE]

----------------------------------------------------------------------------
(* Checkpoint (player.js) *)

CheckpointWidth == 320
CheckpointHeight == 640
ActivationRange == 400
ActivationDuration == 800

NewCheckpoint(x, y) ==
    [x |-> x, y |-> y, width |-> CheckpointWidth, height |-> CheckpointHeight,
     activated |-> FALSE, wasPlayerNear |-> FALSE,
     animActive |-> FALSE, animTimer |-> 0]

updateActivationAnimation(c, deltaTime) ==
    LET t == c.animTimer + deltaTime
    IN  IF t >= ActivationDuration
        THEN [c EXCEPT !.animTimer = t, !.animActive = FALSE]
        ELSE [c EXCEPT !.animTimer = t]

\* activate changes the checkpoint and the player; s is the pair (c, p)
activate(s) ==
    IF s.c.activated THEN s
    ELSE [c |-> [s.c EXCEPT !.activated = TRUE, !.animActive = TRUE, !.animTimer = 0],
          p |-> setCheckpoint(s.p,
                              s.c.x + s.c.width \div 2 - s.p.width \div 2,
                              s.c.y + s.c.height - s.p.height)]

checkPlayerActivation(s) ==
    LET isPlayerNear == CenterDistanceSq(s.c, s.p) <= ActivationRange * ActivationRange
        s1 == IF isPlayerNear /\ ~s.c.wasPlayerNear THEN activate(s) ELSE s
    IN  [s1 EXCEPT !.c.wasPlayerNear = isPlayerNear]

\* variant: the checkpoint stores itself in the player on every frame the
\* player is near
CheckpointUpdate_EveryFrame(c, deltaTime, p) ==
    LET c1 == IF c.animActive THEN updateActivationAnimation(c, deltaTime) ELSE c
        isPlayerNear == CenterDistanceSq(c1, p) <= ActivationRange * ActivationRange
    IN  IF isPlayerNear
        THEN [c |-> [c1 EXCEPT !.activated = TRUE, !.animActive = TRUE,
                               !.wasPlayerNear = TRUE],
              p |-> setCheckpoint(p, c1.x + c1.width \div 2 - p.width \div 2,
                                  c1.y + c1.height - p.height)]
        ELSE [c |-> [c1 EXCEPT !.wasPlayerNear = FALSE], p |-> p]

\* Checkpoint.update changes the checkpoint and, on activation, the player
CheckpointUpdate(c, deltaTime, p) ==
    LET c1 == IF c.animActive THEN updateActivationAnimation(c, deltaTime) ELSE c
    IN  IF ~c1.activated THEN checkPlayerActivation([c |-> c1, p |-> p])
        ELSE [c |-> c1, p |-> p]

CheckpointReset(c) ==
    [c EXCEPT !.activated = FALSE, !.wasPlayerNear = FALSE, !.animActive = FALSE]

----------------------------------------------------------------------------
(* Camera (input.js) *)

\* the size of the game canvas, in tenths of a pixel
Canvas == [width |-> 8000, height |-> 6000]

NewCamera(canvasWidth, canvasHeight, worldWidth, worldHeight) ==
    [x |-> 0, y |-> 0, width |-> canvasWidth, height |-> canvasHeight,
     boundsLeft |-> 0, boundsTop |-> 0,
     boundsRight |-> worldWidth, boundsBottom |-> worldHeight,
     deadzoneX |-> MulFrac(canvasWidth, 3, 10),
     deadzoneY |-> MulFrac(canvasHeight, 2, 10),
     velocityX |-> 0, velocityY |-> 0,
     shakeActive |-> FALSE, shakeIntensity |-> 0, shakeDuration |-> 0,
     shakeTimer |-> 0, shakeOffsetX |-> 0, shakeOffsetY |-> 0,
     flashActive |-> FALSE, flashDuration |-> 0, flashTimer |-> 0]

Sign(v) == IF v > 0 THEN 1 ELSE IF v < 0 THEN -1 ELSE 0

\* lerp(start, end, factor) with factor = num / den
lerp(start, end, num, den) == start + MulFrac(end - start, num, den)

Lookahead == 50

\* variant: inside the deadzone the centered position with lookahead is kept
updateTargetFollowing_Lookahead(cam, target) ==
    LET targetX == target.x + target.width \div 2
        targetY == target.y + target.height \div 2
        centeredX == targetX - cam.width \div 2 + target.velocityX * Lookahead
        deltaX == targetX - (cam.x + cam.width \div 2)
        deltaY == targetY - (cam.y + cam.height \div 2)
        desiredX == IF Abs(deltaX) > cam.deadzoneX
                    THEN cam.x + (deltaX - Sign(deltaX) * cam.deadzoneX)
                    ELSE centeredX
        desiredY == IF Abs(deltaY) > cam.deadzoneY
                    THEN cam.y + (deltaY - Sign(deltaY) * cam.deadzoneY)
                    ELSE cam.y
        vx == lerp(cam.velocityX, MulFrac(desiredX - cam.x, 1, 10), 8, 10)
        vy == lerp(cam.velocityY, MulFrac(desiredY - cam.y, 1, 10), 8, 10)
    IN  [cam EXCEPT !.velocityX = vx, !.velocityY = vy,
                    !.x = @ + vx, !.y = @ + vy]

updateTargetFollowing(cam, target) ==
    LET targetX == target.x + target.width \div 2
        targetY == target.y + target.height \div 2
        \* the centered position with lookahead, replaced below on both branches
        centeredX == targetX - cam.width \div 2 + target.velocityX * Lookahead
        centeredY == targetY - cam.height \div 2
        deltaX == targetX - (cam.x + cam.width \div 2)
        deltaY == targetY - (cam.y + cam.height \div 2)
        desiredX == IF Abs(deltaX) > cam.deadzoneX
                    THEN cam.x + (deltaX - Sign(deltaX) * cam.deadzoneX)
                    ELSE cam.x
        desiredY == IF Abs(deltaY) > cam.deadzoneY
                    THEN cam.y + (deltaY - Sign(deltaY) * cam.deadzoneY)
                    ELSE cam.y
        vx == lerp(cam.velocityX, MulFrac(desiredX - cam.x, 1, 10), 8, 10)
        vy == lerp(cam.velocityY, MulFrac(desiredY - cam.y, 1, 10), 8, 10)
    IN  [cam EXCEPT !.velocityX = vx, !.velocityY = vy,
                    !.x = @ + vx, !.y = @ + vy]

\* rx and ry stand for the two values (Math.random() - 0.5) * 2 of the frame
updateShake(cam, deltaTime, rx, ry) ==
    IF ~cam.shakeActive
    THEN [cam EXCEPT !.shakeOffsetX = 0, !.shakeOffsetY = 0]
    ELSE LET t == cam.shakeTimer + deltaTime
         IN  IF t >= cam.shakeDuration
             THEN [cam EXCEPT !.shakeTimer = t, !.shakeActive = FALSE,
                              !.shakeOffsetX = 0, !.shakeOffsetY = 0]
             ELSE LET currentIntensity ==
                          MulFrac(cam.shakeIntensity, cam.shakeDuration - t,
                                  cam.shakeDuration)
                  IN  [cam EXCEPT !.shakeTimer = t,
                                  !.shakeOffsetX = rx * currentIntensity,
                                  !.shakeOffsetY = ry * currentIntensity]

updateEffects(cam, deltaTime) ==
    IF cam.flashActive
    THEN LET t == cam.flashTimer + deltaTime
         IN  [cam EXCEPT !.flashTimer = t,
                         !.flashActive = IF t >= cam.flashDuration THEN FALSE ELSE @]
    ELSE cam

constrainToBounds_Unshaken(cam) ==
    [cam EXCEPT !.x = clamp(cam.x, cam.boundsLeft, cam.boundsRight - cam.width),
                !.y = clamp(cam.y, cam.boundsTop, cam.boundsBottom - cam.height)]

constrainToBounds(cam) ==
    LET finalX == clamp(cam.x + cam.shakeOffsetX, cam.boundsLeft,
                        cam.boundsRight - cam.width)
        finalY == clamp(cam.y + cam.shakeOffsetY, cam.boundsTop,
                        cam.boundsBottom - cam.height)
    IN  [cam EXCEPT !.x = finalX - cam.shakeOffsetX, !.y = finalY - cam.shakeOffsetY]

\* Camera.update with the player as target (the zoom never leaves 1.0)
CameraUpdate(cam, target, deltaTime, rx, ry) ==
    constrainToBounds(
        updateEffects(
            updateShake(updateTargetFollowing(cam, target), deltaTime, rx, ry),
            deltaTime))

startShake(cam, intensity, duration) ==
    [cam EXCEPT !.shakeActive = TRUE, !.shakeIntensity = intensity,
                !.shakeDuration = duration, !.shakeTimer = 0]

startFlash(cam, duration) ==
    [cam EXCEPT !.flashActive = TRUE, !.flashDuration = duration, !.flashTimer = 0]

setWorldBounds(cam, width, height) ==
    [cam EXCEPT !.boundsRight = width, !.boundsBottom = height]

----------------------------------------------------------------------------
(* Level and Game *)

NewLevel(width, startX, startY, goalX, goalY, timeLimit) ==
    [width |-> width, height |-> 10000,
     playerStartX |-> startX, playerStartY |-> startY,
     goalX |-> goalX, goalY |-> goalY,
     completed |-> FALSE, timeLimit |-> timeLimit, startTime |-> 0]

NewGame ==
    [state |-> "playing", previousState |-> "menu",
     currentLevelNumber |-> 1, score |-> 0, lives |-> 3, totalScore |-> 0,
     lastFrameTime |-> 0, deltaTime |-> 0]

\* Level.update: platforms, then enemies with the removal sweep, then the
\* collectibles, then the checkpoints (which may store a checkpoint in the
\* player), then the completion test.
LevelUpdatePlatforms(plats, deltaTime, p) ==
    [i \in 1..Len(plats) |-> PlatformUpdate(plats[i], deltaTime, p)]

ShouldStay(e) == ~e.shouldRemove

LevelUpdateEnemies(ens, deltaTime, plats, p) ==
    SelectSeq([i \in 1..Len(ens) |-> EnemyUpdate(ens[i], deltaTime, plats, p)], ShouldStay)

LevelUpdateCollectibles(cols, deltaTime, p) ==
    [i \in 1..Len(cols) |-> CollectibleUpdate(cols[i], deltaTime, p)]

\* the checkpoint loop of Level.update; s is the pair (checkpoints, player)
RECURSIVE UpdateCheckpointsFrom(_, _, _)
UpdateCheckpointsFrom(s, i, deltaTime) ==
    IF i > Len(s.checkpoints) THEN s
    ELSE LET r == CheckpointUpdate(s.checkpoints[i], deltaTime, s.player)
         IN  UpdateCheckpointsFrom(
                 [checkpoints |-> [s.checkpoints EXCEPT ![i] = r.c], player |-> r.p],
                 i + 1, deltaTime)

GoalRadius == 500

checkLevelCompletion(lv, p) ==
    IF lv.completed THEN lv
    ELSE IF DistanceSq(p.x + p.width \div 2, p.y + p.height \div 2, lv.goalX, lv.goalY)
              <= GoalRadius * GoalRadius
         THEN [lv EXCEPT !.completed = TRUE]
         ELSE lv

LevelUpdate(plats, ens, cols, cps, lv, deltaTime, p) ==
    LET plats1 == LevelUpdatePlatforms(plats, deltaTime, p)
        k1 == UpdateCheckpointsFrom([checkpoints |-> cps, player |-> p], 1, deltaTime)
    IN  [platforms |-> plats1,
         enemies |-> LevelUpdateEnemies(ens, deltaTime, plats1, p),
         collectibles |-> LevelUpdateCollectibles(cols, deltaTime, p),
         checkpoints |-> k1.checkpoints,
         player |-> k1.player,
         level |-> checkLevelCompletion(lv, k1.player)]

\* Level.reset: the same Level object, with everything in it reset
LevelReset(w, currentTime) ==
    [w EXCEPT !.level.completed = FALSE, !.level.startTime = currentTime,
              !.platforms = [i \in 1..Len(w.platforms) |-> PlatformReset(w.platforms[i])],
              !.enemies = [i \in 1..Len(w.enemies) |-> EnemyReset(w.enemies[i])],
              !.collectibles = [i \in 1..Len(w.collectibles) |->
                                   CollectibleReset(w.collectibles[i])],
              !.checkpoints = [i \in 1..Len(w.checkpoints) |->
                                  CheckpointReset(w.checkpoints[i])]]

isTimeUp(lv, currentTime) ==
    IF lv.timeLimit = 0 THEN FALSE ELSE currentTime - lv.startTime >= lv.timeLimit

getRemainingTime(lv, currentTime) == Max(0, lv.timeLimit - (currentTime - lv.startTime))

updatePlayerInput(p, im) ==
    setInput(setInput(setInput(p, "left", isPressed(im, "left")),
                      "right", isPressed(im, "right")),
             "jump", isPressed(im, "jump"))

HitShakeIntensity == 50
HitShakeDuration == 200
RespawnShakeIntensity == 80
RespawnShakeDuration == 500
SpecialFlashDuration == 300

\* the player-enemy loop of Game.handleCollisions; s is (enemies, player, camera)
RECURSIVE HandleEnemyCollisionsFrom(_, _, _)
HandleEnemyCollisionsFrom(s, i, currentTime) ==
    IF i > Len(s.enemies) THEN s
    ELSE LET r == EnemyCheckPlayerCollision(s.enemies[i], s.player, currentTime)
         IN  HandleEnemyCollisionsFrom(
                 [enemies |-> [s.enemies EXCEPT ![i] = r.e], player |-> r.p,
                  camera |-> IF r.ret
                             THEN startShake(s.camera, HitShakeIntensity, HitShakeDuration)
                             ELSE s.camera],
                 i + 1, currentTime)

\* s is a record holding at least game, player and camera
handleCollectibleCollection(s, collection) ==
    IF collection.effect = "score"
    THEN [s EXCEPT !.game.score = @ + collection.value]
    ELSE IF collection.effect = "health"
    THEN [s EXCEPT !.player = heal(s.player, collection.value)]
    ELSE IF collection.effect = "special"
    THEN [s EXCEPT !.game.score = @ + collection.value,
                   !.camera = startFlash(s.camera, SpecialFlashDuration)]
    ELSE s

\* the player-collectible loop; s is (collectibles, game, player, camera)
RECURSIVE HandleCollectibleCollisionsFrom(_, _)
HandleCollectibleCollisionsFrom(s, i) ==
    IF i > Len(s.collectibles) THEN s
    ELSE LET r == CollectibleCheckPlayerCollision(s.collectibles[i], s.player)
             s1 == [s EXCEPT !.collectibles[i] = r.c]
         IN  HandleCollectibleCollisionsFrom(
                 IF r.ret # Null THEN handleCollectibleCollection(s1, r.ret) ELSE s1,
                 i + 1)

\* Game.handleCollisions; the result holds enemies, collectibles, game, player, camera
handleCollisions(ens, cols, g, p, cam, currentTime) ==
    LET e1 == HandleEnemyCollisionsFrom([enemies |-> ens, player |-> p, camera |-> cam],
                                        1, currentTime)
        c1 == HandleCollectibleCollisionsFrom(
                  [collectibles |-> cols, game |-> g, player |-> e1.player,
                   camera |-> e1.camera], 1)
    IN  [enemies |-> e1.enemies, collectibles |-> c1.collectibles, game |-> c1.game,
         player |-> c1.player, camera |-> c1.camera]

gameOver(g) == [g EXCEPT !.state = "gameOver"]

calculateTimeBonus(lv, currentTime) ==
    IF lv.timeLimit = 0 THEN 0
    ELSE (getRemainingTime(lv, currentTime) * 1000) \div lv.timeLimit

\* variant: the state stays 'playing', so the completion is handled again
\* on the following frames
levelComplete_KeepState(g, p, lv, currentTime) ==
    LET timeBonus == calculateTimeBonus(lv, currentTime)
        healthBonus == p.health
    IN  [g EXCEPT !.score = @ + timeBonus + healthBonus,
                  !.totalScore = @ + g.score + timeBonus + healthBonus]

levelComplete(g, p, lv, currentTime) ==
    LET timeBonus == calculateTimeBonus(lv, currentTime)
        healthBonus == p.health
    IN  [g EXCEPT !.state = "levelComplete",
                  !.score = @ + timeBonus + healthBonus,
                  !.totalScore = @ + g.score + timeBonus + healthBonus]

\* checkGameConditions; the result is the triple (game, player, camera)
checkGameConditions(g, p, lv, cam, currentTime) ==
    LET s1 == IF isDead(p)
              THEN IF g.lives - 1 <= 0
                   THEN [game |-> gameOver([g EXCEPT !.lives = @ - 1]), player |-> p,
                         camera |-> cam]
                   ELSE [game |-> [g EXCEPT !.lives = @ - 1],
                         player |-> respawn(p, currentTime),
                         camera |-> startShake(cam, RespawnShakeIntensity,
                                               RespawnShakeDuration)]
              ELSE [game |-> g, player |-> p, camera |-> cam]
        g2 == IF lv.completed THEN levelComplete(s1.game, s1.player, lv, currentTime)
              ELSE s1.game
        g3 == IF isTimeUp(lv, currentTime) THEN gameOver(g2) ELSE g2
    IN  [game |-> g3, player |-> s1.player, camera |-> s1.camera]

\* Game.updatePlaying on the world w, a record of game, player, platforms,
\* enemies, collectibles, checkpoints, level, camera and input. Its four
\* steps, last first: l1 is what Level.update returned, c1 what
\* handleCollisions returned, g1 what checkGameConditions returned.
updatePlayingResult(w, l1, c1, g1) ==
    [w EXCEPT !.player = g1.player, !.platforms = l1.platforms,
              !.enemies = c1.enemies, !.collectibles = c1.collectibles,
              !.checkpoints = l1.checkpoints, !.level = l1.level,
              !.game = g1.game, !.camera = g1.camera]

updatePlayingConditions(w, l1, c1, currentTime) ==
    updatePlayingResult(w, l1, c1,
                        checkGameConditions(c1.game, c1.player, l1.level, c1.camera,
                                            currentTime))

updatePlayingCollisions(w, l1, currentTime) ==
    updatePlayingConditions(w, l1,
                            handleCollisions(l1.enemies, l1.collectibles, w.game,
                                             l1.player, w.camera, currentTime),
                            currentTime)

updatePlaying(w, deltaTime, currentTime) ==
    updatePlayingCollisions(
        w,
        LevelUpdate(w.platforms, w.enemies, w.collectibles, w.checkpoints, w.level,
                    deltaTime,
                    PlayerUpdate(updatePlayerInput(w.player, w.input), w.platforms,
                                 currentTime)),
        currentTime)

pauseGame(g) ==
    IF g.state = "playing" THEN [g EXCEPT !.previousState = g.state, !.state = "paused"]
    ELSE g

resumeGame(g) ==
    IF g.state = "paused" THEN [g EXCEPT !.state = g.previousState] ELSE g

MaxDeltaTime == 50

\* the objects the Game holds, gathered in one record
World ==
    [game |-> game, player |-> player, platforms |-> platforms, enemies |-> enemies,
     collectibles |-> collectibles, checkpoints |-> checkpoints, level |-> level,
     camera |-> camera, input |-> input]

\* Game.update, last step: 'Always update camera and UI'
GameUpdateCamera(w, deltaTime, rx, ry) ==
    [w EXCEPT !.camera = CameraUpdate(w.camera, w.player, deltaTime, rx, ry)]

\* Game.update, the switch on the state
GameUpdateState(w, deltaTime, currentTime) ==
    IF w.game.state = "playing" THEN updatePlaying(w, deltaTime, currentTime) ELSE w

\* Game.update, the pause key
GameUpdatePause(w) ==
    IF isJustPressed(w.input, "pause")
    THEN (IF w.game.state = "playing" THEN [w EXCEPT !.game = pauseGame(w.game)]
          ELSE IF w.game.state = "paused" THEN [w EXCEPT !.game = resumeGame(w.game)]
          ELSE w)
    ELSE w

\* variant: the playing update runs in every state
GameUpdate_AllStates(w, deltaTime, currentTime, rx, ry) ==
    GameUpdateCamera(updatePlaying([w EXCEPT !.input = InputUpdate(w.input)],
                                   deltaTime, currentTime),
                     deltaTime, rx, ry)

\* Game.update on the world w; rx, ry are the random numbers of the camera shake
GameUpdate(w, deltaTime, currentTime, rx, ry) ==
    GameUpdateCamera(
        GameUpdateState(GameUpdatePause([w EXCEPT !.input = InputUpdate(w.input)]),
                        deltaTime, currentTime),
        deltaTime, rx, ry)

\* variant: the frame time is passed on unclamped
gameLoop_NoClamp(w, currentTime, rx, ry) ==
    LET deltaTime == currentTime - w.game.lastFrameTime
    IN  GameUpdate([w EXCEPT !.game.lastFrameTime = currentTime,
                             !.game.deltaTime = deltaTime],
                   deltaTime, currentTime, rx, ry)

\* one iteration of Game.gameLoop at time currentTime
gameLoop(w, currentTime, rx, ry) ==
    LET deltaTime == Min(currentTime - w.game.lastFrameTime, MaxDeltaTime)
    IN  GameUpdate([w EXCEPT !.game.lastFrameTime = currentTime,
                             !.game.deltaTime = deltaTime],
                   deltaTime, currentTime, rx, ry)

\* the random numbers a frame may draw for the shake
ShakeChoices(cam) == IF cam.shakeActive THEN {-1, 0, 1} ELSE {0}

\* the player rests on the top surface of platform pl
StandingOn(p, pl) ==
    /\ p.y + p.height = pl.y
    /\ p.x < pl.x + pl.width
    /\ p.x + p.width > pl.x

----------------------------------------------------------------------------
(* Specification SpecPlay: the game loop in a started level, with keyboard *)
(* events arriving between frames.                                         *)

\* the time between two animation frames, in ms
FrameGaps == {50}
KeyActions == {"left", "right", "jump"}

\* level 1: the player is dropped at (50, 400) above the first platform
GroundLevel ==
    [platforms |-> <<NewPlatform(0, 5000, 3000, 400, "static")>>,
     enemies |-> <<>>,
     level |-> NewLevel(16000, 500, 4000, 15200, 4100, 0)]

\* a level whose first platform is of type crumbling, the player dropped 2 px above it
CrumbleLevel ==
    [platforms |-> <<NewPlatform(0, 5000, 3000, 400, "crumbling")>>,
     enemies |-> <<>>,
     level |-> NewLevel(16000, 500, 4500, 15200, 4100, 0)]

\* a crumbling floor with a block 47 px above it, the player starting beside the block
OverhangLevel ==
    [platforms |-> <<NewPlatform(0, 5000, 4000, 400, "crumbling"),
                     NewPlatform(1000, 4130, 2500, 400, "static")>>,
     enemies |-> <<>>,
     level |-> NewLevel(16000, 650, 4500, 15200, 4100, 0)]

\* a floor with a block 31 px above it and an enemy patrolling toward the block
EnemyLevel ==
    [platforms |-> <<NewPlatform(0, 5000, 6000, 400, "static"),
                     NewPlatform(4000, 4290, 1000, 400, "static")>>,
     enemies |-> <<NewEnemy(3600, 4600, "patrol")>>,
     level |-> NewLevel(16000, 500, 4500, 15200, 4100, 0)]

\* level 4: the player is dropped above the left end of its last, bouncy
\* platform, outside the goal's radius
BouncyLevel ==
    [platforms |-> <<NewPlatform(19500, 4000, 1500, 400, "bouncy")>>,
     enemies |-> <<>>,
     level |-> NewLevel(22000, 19400, 3500, 20200, 3600, 0)]

PlayLevels == {GroundLevel, CrumbleLevel, OverhangLevel, EnemyLevel, BouncyLevel}

NoGhost ==
    [reports |-> 0, activations |-> 0, everNear |-> FALSE,
     cpX |-> 0, cpY |-> 0, cpHealth |-> 0, completions |-> 0, bonuses |-> 0,
     prevState |-> "loading", loaded |-> FALSE, expectedScore |-> 0,
     deadTime |-> 0, jumps |-> 0, groundJumps |-> 0,
     sinceTurn |-> 0, turned |-> FALSE, levelTotal |-> 0, held |-> {}]

InitPlay ==
    /\ \E L \in PlayLevels :
          /\ platforms = L.platforms
          /\ enemies = L.enemies
          /\ level = L.level
          /\ player = NewPlayer(L.level.playerStartX, L.level.playerStartY)
          /\ camera = NewCamera(Canvas.width, Canvas.height, L.level.width, L.level.height)
    /\ collectibles = <<>>
    /\ checkpoints = <<>>
    /\ ghost = NoGhost
    /\ game = NewGame
    /\ input = NewInputManager
    /\ events = 0
    /\ now = 0
    /\ lastOp = "init"
    /\ lastArg = 0
    /\ lastRet = FALSE
    /\ standTime = 0

KeyDown(a) ==
    /\ events < MaxKeyEvents
    /\ ~input.keys[a]
    /\ input' = handleKeyDown(input, a)
    /\ events' = events + 1
    /\ lastOp' = "keydown"
    /\ lastArg' = 0
    /\ lastRet' = FALSE
    /\ UNCHANGED <<player, platforms, enemies, level, game, now, standTime, itemVars>>

KeyUp(a) ==
    /\ events < MaxKeyEvents
    /\ input.keys[a]
    /\ input' = handleKeyUp(input, a)
    /\ events' = events + 1
    /\ lastOp' = "keyup"
    /\ lastArg' = 0
    /\ lastRet' = FALSE
    /\ UNCHANGED <<player, platforms, enemies, level, game, now, standTime, itemVars>>

\* the world after the step is w
SetWorld(w) ==
    /\ game' = w.game
    /\ player' = w.player
    /\ platforms' = w.platforms
    /\ enemies' = w.enemies
    /\ collectibles' = w.collectibles
    /\ checkpoints' = w.checkpoints
    /\ level' = w.level
    /\ camera' = w.camera
    /\ input' = w.input

\* one iteration of Game.gameLoop, elapsed ms after the previous one
Frame(elapsed) ==
    LET currentTime == now + elapsed
        deltaTime == Min(currentTime - game.lastFrameTime, MaxDeltaTime)
        p1 == PlayerUpdate(updatePlayerInput(player, InputUpdate(input)), platforms,
                           currentTime)
    IN  /\ currentTime <= MaxPlayTime
        /\ player.y <= MaxFallY
        /\ now' = currentTime
        /\ \E rx \in ShakeChoices(camera), ry \in ShakeChoices(camera) :
              SetWorld(gameLoop(World, currentTime, rx, ry))
        /\ standTime' = IF game.state = "playing"
                        THEN IF \E i \in 1..Len(platforms) :
                                    /\ platforms[i].type = "crumbling"
                                    /\ StandingOn(p1, platforms[i])
                             THEN standTime + deltaTime
                             ELSE 0
                        ELSE standTime
        /\ lastOp' = "frame"
        /\ lastArg' = deltaTime
        /\ lastRet' = FALSE
        /\ UNCHANGED <<events, ghost>>

NextPlay ==
    \/ \E a \in KeyActions : KeyDown(a)
    \/ \E a \in KeyActions : KeyUp(a)
    \/ \E elapsed \in FrameGaps : Frame(elapsed)

SpecPlay == InitPlay /\ [][NextPlay]_vars

----------------------------------------------------------------------------
(* Specification SpecHealth: the Player's health operations called in any  *)
(* order, with Player.update frames and the clock advancing in between.    *)

Damages == {0, 30, 80, 150}
Heals == {0, 30}
ClockSteps == {499, 501}
HealthPlatforms == <<NewPlatform(0, 5000, 3000, 400, "static")>>
\* standing on the floor of level 1, and just above the bottom of the world
HealthPositions == {<<500, 4520>>, <<5000, 9995>>}

InitHealth ==
    /\ player = NewPlayer(500, 4520)
    /\ platforms = HealthPlatforms
    /\ enemies = <<>>
    /\ level = NewLevel(16000, 500, 4520, 15200, 4100, 0)
    /\ game = NewGame
    /\ input = NewInputManager
    /\ events = 0
    /\ now = 0
    /\ lastOp = "init"
    /\ lastArg = 0
    /\ lastRet = FALSE
    /\ standTime = 0
    /\ collectibles = <<>>
    /\ checkpoints = <<>>
    /\ camera = NewCamera(Canvas.width, Canvas.height, 16000, 10000)
    /\ ghost = NoGhost

HTakeDamage(d) ==
    LET r == PlayerTakeDamage(player, d, now) IN
    /\ player' = r.p
    /\ lastOp' = "takeDamage"
    /\ lastArg' = d
    /\ lastRet' = r.ret
    /\ UNCHANGED <<worldVars, now>>

HHeal(a) ==
    /\ player' = heal(player, a)
    /\ lastOp' = "heal"
    /\ lastArg' = a
    /\ lastRet' = FALSE
    /\ UNCHANGED <<worldVars, now>>

HSetCheckpoint(pos) ==
    /\ player' = setCheckpoint(player, pos[1], pos[2])
    /\ lastOp' = "setCheckpoint"
    /\ lastArg' = 0
    /\ lastRet' = FALSE
    /\ UNCHANGED <<worldVars, now>>

HRespawn ==
    /\ player' = respawn(player, now)
    /\ lastOp' = "respawn"
    /\ lastArg' = 0
    /\ lastRet' = FALSE
    /\ UNCHANGED <<worldVars, now>>

HReset(pos) ==
    /\ player' = PlayerReset(player, pos[1], pos[2])
    /\ lastOp' = "reset"
    /\ lastArg' = 0
    /\ lastRet' = FALSE
    /\ UNCHANGED <<worldVars, now>>

HUpdate ==
    /\ player.y <= MaxFallY
    /\ player' = PlayerUpdate(player, platforms, now)
    /\ lastOp' = "update"
    /\ lastArg' = 0
    /\ lastRet' = FALSE
    /\ UNCHANGED <<worldVars, now>>

\* time passes between two calls
HTick(dt) ==
    /\ now + dt <= MaxTime
    /\ now' = now + dt
    /\ lastOp' = "tick"
    /\ lastArg' = dt
    /\ lastRet' = FALSE
    /\ UNCHANGED <<player, worldVars>>

NextHealth ==
    \/ \E d \in Damages : HTakeDamage(d)
    \/ \E a \in Heals : HHeal(a)
    \/ \E pos \in HealthPositions : HSetCheckpoint(pos)
    \/ HRespawn
    \/ \E pos \in HealthPositions : HReset(pos)
    \/ HUpdate
    \/ \E dt \in ClockSteps : HTick(dt)

SpecHealth == InitHealth /\ [][NextHealth]_vars

\* C1: after every takeDamage(d >= 0), heal(a >= 0), setCheckpoint, respawn,
\* reset (and update) call, 0 <= health <= maxHealth.
C1_HealthBounds == 0 <= player.health /\ player.health <= MaxHealth

\* a lethal hit was floored at 0 and a later heal was capped at maxHealth
C1_Witness ==
    \/ lastOp = "takeDamage" /\ lastArg = 150 /\ lastRet /\ player.health = 0
    \/ lastOp = "heal" /\ lastArg = 30 /\ player.health = MaxHealth

\* C2: takeDamage(d) on an invulnerable player returns false and leaves
\* health, invulnerable and lastDamageTime as they were, for every d.
C2_InvulnerableNoOp ==
    [][(player.invulnerable /\ lastOp' = "takeDamage")
        => /\ lastRet' = FALSE
           /\ player'.health = player.health
           /\ player'.invulnerable = player.invulnerable
           /\ player'.lastDamageTime = player.lastDamageTime]_vars

C2_Witness ==
    /\ lastOp = "takeDamage" /\ lastArg = 150 /\ lastRet = FALSE
    /\ player.invulnerable /\ player.health > 0 /\ now > player.lastDamageTime

\* C3: a hit d on a vulnerable player with health h: if d < h, health becomes
\* h - d and invulnerable becomes true, timed from the hit; if d >= h, health
\* becomes 0 (dead) and invulnerable is not set.  While invulnerable, every
\* takeDamage leaves health alone, and invulnerable is cleared by the first
\* Player.update that runs at least 1000 ms after the hit and by no earlier
\* step (reset and respawn, which restart the player, aside).
C3_DamageWindow ==
    [][/\ (~player.invulnerable /\ lastOp' = "takeDamage")
          => IF lastArg' < player.health
             THEN /\ player'.health = player.health - lastArg'
                  /\ player'.invulnerable
                  /\ player'.lastDamageTime = now
             ELSE /\ player'.health = 0
                  /\ isDead(player')
                  /\ ~player'.invulnerable
       /\ (player.invulnerable /\ lastOp' \notin {"reset", "respawn"})
          => /\ lastOp' = "takeDamage" => player'.health = player.health
             /\ player'.lastDamageTime = player.lastDamageTime
             /\ player'.invulnerable
                   <=> ~(lastOp' = "update"
                         /\ now - player.lastDamageTime >= InvulnerabilityTime)]_vars

\* the hit 100 -> 70 whose window was cleared by an update exactly 1000 ms later
C3_Witness ==
    /\ lastOp = "update" /\ ~player.invulnerable /\ player.health = 70
    /\ now - player.lastDamageTime = InvulnerabilityTime

\* the entity's feet are on the top surface of some platform of the list
RestsOnSurface(ent, plats) ==
    \E i \in 1..Len(plats) : StandingOn(ent, plats[i])

\* the rectangle overlaps no platform of the list that provides collision
OverlapsNone(ent, plats) ==
    \A i \in 1..Len(plats) : providesCollision(plats[i]) => ~checkCollision(ent, plats[i])

\* C4: an entity resting on a platform's top surface with zero vertical
\* velocity and no input is at a fixed point of update: y, velocityY and
\* isGrounded are the same at the end of every update, isGrounded being true.
C4_RestingFixedPoint ==
    /\ (/\ RestsOnSurface(player, platforms)
        /\ player.velocityY = 0
        /\ ~player.keys.left /\ ~player.keys.right /\ ~player.keys.jumpPressed)
       => LET q == PlayerUpdate(player, platforms, now)
          IN  q.y = player.y /\ q.velocityY = 0 /\ q.isGrounded
    /\ \A i \in 1..Len(enemies) :
          LET e == enemies[i]
              q == EnemyUpdate(e, MaxDeltaTime, platforms, player)
          IN  (/\ e.isAlive
               /\ RestsOnSurface(e, platforms)
               /\ e.velocityY = 0
               /\ RestsOnSurface([q EXCEPT !.y = e.y], platforms))
              => q.y = e.y /\ q.velocityY = 0 /\ q.isGrounded

\* C5: a live player resting on a platform's top surface whose jump input goes
\* from not held to held is launched by handleInput in that very frame:
\* velocityY = -jumpPower, canDoubleJump = true, hasDoubleJumped = false.
C5_JumpFromSurface ==
    LET im == InputUpdate(input)
        p0 == updatePlayerInput(player, im)
        q == HandleInput(p0)
    IN  (/\ game.state = "playing"
         /\ ~isDead(player)
         /\ RestsOnSurface(player, platforms)
         /\ player.velocityY = 0
         /\ p0.keys.jumpPressed /\ ~p0.keys.jump)
        => q.velocityY = -JumpPower /\ q.canDoubleJump /\ ~q.hasDoubleJumped

\* C6: right after handlePlatformCollisions has processed the platform list,
\* the rectangle of the player (of every live enemy) overlaps no platform of
\* the list that provides collision.
C6_NonPenetration ==
    game.state = "playing" =>
        LET im == InputUpdate(input)
            q == PlayerHandlePlatformCollisions(
                     PlayerUpdatePhysics(HandleInput(updatePlayerInput(player, im))),
                     platforms)
        IN  /\ OverlapsNone(q, platforms)
            /\ \A i \in 1..Len(enemies) :
                  enemies[i].isAlive =>
                     OverlapsNone(
                        EnemyHandlePlatformCollisions(
                            EnemyUpdatePhysics(updateAI(enemies[i], player)), platforms),
                        platforms)

\* C7: once a crumbling platform's isCrumbling flag is set, no later playing
\* frame lets Player.update or Enemy.update resolve a collision against it:
\* the collision loop gives the same result with and without that platform.
C7_CrumbledNoCollision ==
    game.state = "playing" =>
        LET im == InputUpdate(input)
            q == PlayerUpdatePhysics(HandleInput(updatePlayerInput(player, im)))
            solid == SelectSeq(platforms, providesCollision)
        IN  /\ PlayerHandlePlatformCollisions(q, platforms)
                  = PlayerHandlePlatformCollisions(q, solid)
            /\ \A i \in 1..Len(enemies) :
                  LET e == EnemyUpdatePhysics(updateAI(enemies[i], player))
                  IN  enemies[i].isAlive =>
                         EnemyResolveAll(e, platforms) = EnemyResolveAll(e, solid)

\* C8: a crumbling platform the player has stood on for less than crumbleDelay
\* of accumulated frame time is solid, and it is crumbling as soon as the
\* accumulated standing time has reached crumbleDelay.
C8_CrumbleAfterDelay ==
    \A i \in 1..Len(platforms) :
        (platforms[i].type = "crumbling" /\ StandingOn(player, platforms[i]))
        => (platforms[i].isCrumbling <=> standTime >= CrumbleDelay)

----------------------------------------------------------------------------
(* Specification SpecEnemy: one enemy standing on a floor; the player is    *)
(* put at chosen places (Player.reset), falls under Player.update, and the  *)
(* enemy's updateAI and checkPlayerCollision are called in any order.       *)

EnemyFloor == <<NewPlatform(0, 5000, 6000, 400, "static")>>
\* the enemy of SpecEnemy rests on the floor; its center is (3740, 4840)
TheEnemy == NewEnemy(3600, 4680, "patrol")
\* player places, by the distance between the centers (D = detectionRange):
\* exactly D, just over D, 1.4 D, exactly 1.5 D, just over 1.5 D, 1.6 D;
\* then above the enemy (a fall of three frames ends 2 px, 10 px and 10.1 px
\* below the enemy's top), inside the tolerance at rest, and beside the enemy
EnemyPositions ==
    {<<4480, 3400>>, <<4480, 3390>>, <<4840, 2920>>, <<4930, 2800>>,
     <<4930, 2790>>, <<5020, 2680>>,
     <<3600, 4172>>, <<3600, 4252>>, <<3600, 4253>>, <<3600, 4250>>,
     <<3500, 4520>>}

\* the clock advances by the length of the invulnerability window
EnemyClockSteps == {1000}

InitEnemy ==
    /\ player = NewPlayer(500, 4520)
    /\ platforms = EnemyFloor
    /\ enemies = <<TheEnemy>>
    /\ level = NewLevel(16000, 500, 4520, 15200, 4100, 0)
    /\ game = NewGame
    /\ input = NewInputManager
    /\ events = 0
    /\ now = 0
    /\ lastOp = "init"
    /\ lastArg = 0
    /\ lastRet = FALSE
    /\ standTime = 0
    /\ collectibles = <<>>
    /\ checkpoints = <<>>
    /\ camera = NewCamera(Canvas.width, Canvas.height, 16000, 10000)
    /\ ghost = NoGhost

EPlayerReset(pos) ==
    /\ player' = PlayerReset(player, pos[1], pos[2])
    /\ lastOp' = "reset"
    /\ lastArg' = 0
    /\ lastRet' = FALSE
    /\ UNCHANGED <<worldVars, now>>

EPlayerUpdate ==
    /\ player' = PlayerUpdate(player, platforms, now)
    /\ lastOp' = "update"
    /\ lastArg' = 0
    /\ lastRet' = FALSE
    /\ UNCHANGED <<worldVars, now>>

EUpdateAI ==
    /\ enemies' = [enemies EXCEPT ![1] = updateAI(enemies[1], player)]
    /\ lastOp' = "updateAI"
    /\ lastArg' = 0
    /\ lastRet' = FALSE
    /\ UNCHANGED <<player, platforms, level, game, input, events, standTime, now, itemVars>>

ECheckPlayerCollision ==
    LET r == EnemyCheckPlayerCollision(enemies[1], player, now) IN
    /\ enemies' = [enemies EXCEPT ![1] = r.e]
    /\ player' = r.p
    /\ lastOp' = "checkPlayerCollision"
    /\ lastArg' = 0
    /\ lastRet' = r.ret
    /\ UNCHANGED <<platforms, level, game, input, events, standTime, now, itemVars>>

EEnemyReset ==
    /\ enemies' = [enemies EXCEPT ![1] = EnemyReset(enemies[1])]
    /\ lastOp' = "enemyReset"
    /\ lastArg' = 0
    /\ lastRet' = FALSE
    /\ UNCHANGED <<player, platforms, level, game, input, events, standTime, now, itemVars>>

\* time passes between two calls
ETick(dt) ==
    /\ now + dt <= MaxTime
    /\ now' = now + dt
    /\ lastOp' = "tick"
    /\ lastArg' = dt
    /\ lastRet' = FALSE
    /\ UNCHANGED <<player, worldVars>>

NextEnemy ==
    \/ \E pos \in EnemyPositions : EPlayerReset(pos)
    \/ EPlayerUpdate
    \/ EUpdateAI
    \/ ECheckPlayerCollision
    \/ EEnemyReset
    \/ \E dt \in EnemyClockSteps : ETick(dt)

SpecEnemy == InitEnemy /\ [][NextEnemy]_vars

\* C9: for a live enemy and a live player, a call of updateAI leaves isChasing
\* true when the distance between the centers is at most detectionRange
\* (inclusive), leaves a chasing enemy chasing while the distance is at most
\* 1.5 x detectionRange, and leaves isChasing false when the distance is
\* greater than 1.5 x detectionRange.
C9_ChaseHysteresis ==
    LET e == enemies[1]
        d2 == CenterDistanceSq(e, player)
        q == updateAI(e, player)
    IN  (e.isAlive /\ ~isDead(player)) =>
           /\ d2 <= 1500 * 1500 => q.isChasing
           /\ (e.isChasing /\ d2 <= 2250 * 2250) => q.isChasing
           /\ d2 > 2250 * 2250 => ~q.isChasing
           /\ (~e.isChasing /\ d2 > 1500 * 1500) => ~q.isChasing

\* the enemy is still chasing after an updateAI call made with the player
\* inside the band, farther than detectionRange
C9_Witness ==
    /\ lastOp = "updateAI"
    /\ enemies[1].isAlive
    /\ enemies[1].isChasing
    /\ CenterDistanceSq(enemies[1], player) > 1500 * 1500
    /\ CenterDistanceSq(enemies[1], player) <= 2250 * 2250

\* C10: when checkPlayerCollision runs with a live enemy overlapping a live
\* player, and the player's bottom is at most 10 px below the enemy's top and
\* the player moves down, the enemy dies with health 0, the player's
\* velocityY becomes -8 and the player's health is unchanged; in every other
\* overlapping case the enemy is unchanged and the player changes as by
\* takeDamage(20): not at all when invulnerable, else 20 health less.
C10_StompOrDamage ==
    LET e == enemies[1]
        r == EnemyCheckPlayerCollision(e, player, now)
    IN  (e.isAlive /\ ~isDead(player) /\ checkCollision(e, player)) =>
           IF player.y + player.height <= e.y + 100 /\ player.velocityY > 0
           THEN /\ ~r.e.isAlive
                /\ r.e.health = 0
                /\ r.p = [player EXCEPT !.velocityY = -80]
           ELSE /\ r.e = e
                /\ player.invulnerable => r.p = player
                /\ ~player.invulnerable =>
                      /\ r.p.health = Max(0, player.health - 20)
                      /\ r.p.velocityY = player.velocityY
                      /\ r.p.x = player.x /\ r.p.y = player.y

\* the player has just stomped the enemy: the enemy is dead and the player
\* bounces with full health
C10_Witness ==
    /\ lastOp = "checkPlayerCollision"
    /\ ~enemies[1].isAlive
    /\ enemies[1].health = 0
    /\ player.velocityY = -80
    /\ player.health = MaxHealth
    /\ checkCollision(enemies[1], player)

----------------------------------------------------------------------------
(* Specification SpecCollect: the first coin of level 1 above the first     *)
(* platform; the player is put beside it, on it or away from it and falls   *)
(* to the platform, while update, checkPlayerCollision, collect and reset   *)
(* are called on the coin in any order.                                     *)

CollectFloor == <<NewPlatform(0, 5000, 3000, 400, "static")>>
TheCoin == NewCollectible(1200, 4600, "coin")
\* away from the coin, inside its magnetic range, and overlapping it
CollectPositions == {<<500, 4520>>, <<800, 4520>>, <<1100, 4520>>}
\* the frame time passed to Collectible.update; the clock advances with it
CollectFrameTimes == {250}

InitCollect ==
    /\ player = NewPlayer(500, 4520)
    /\ platforms = CollectFloor
    /\ enemies = <<>>
    /\ collectibles = <<TheCoin>>
    /\ checkpoints = <<>>
    /\ level = NewLevel(16000, 500, 4000, 15200, 4100, 0)
    /\ camera = NewCamera(Canvas.width, Canvas.height, 16000, 10000)
    /\ game = NewGame
    /\ input = NewInputManager
    /\ ghost = NoGhost
    /\ events = 0
    /\ now = 0
    /\ lastOp = "init"
    /\ lastArg = 0
    /\ lastRet = FALSE
    /\ standTime = 0

CPlayerReset(pos) ==
    /\ player' = PlayerReset(player, pos[1], pos[2])
    /\ lastOp' = "reset"
    /\ lastArg' = 0
    /\ lastRet' = FALSE
    /\ UNCHANGED <<worldVars, now>>

CPlayerUpdate ==
    /\ player' = PlayerUpdate(player, platforms, now)
    /\ lastOp' = "update"
    /\ lastArg' = 0
    /\ lastRet' = FALSE
    /\ UNCHANGED <<worldVars, now>>

CUpdate(deltaTime) ==
    /\ now + deltaTime <= MaxTime
    /\ now' = now + deltaTime
    /\ collectibles' = [collectibles EXCEPT
                           ![1] = CollectibleUpdate(collectibles[1], deltaTime, player)]
    /\ lastOp' = "collectibleUpdate"
    /\ lastArg' = deltaTime
    /\ lastRet' = FALSE
    /\ UNCHANGED <<player, platforms, enemies, level, game, input, events, standTime,
                   checkpoints, camera, ghost>>

\* lastRet records whether the call returned a collection result
CCheckPlayerCollision ==
    LET r == CollectibleCheckPlayerCollision(collectibles[1], player) IN
    /\ collectibles' = [collectibles EXCEPT ![1] = r.c]
    /\ ghost' = [ghost EXCEPT !.reports = IF r.ret # Null THEN @ + 1 ELSE @]
    /\ lastOp' = "checkPlayerCollision"
    /\ lastArg' = 0
    /\ lastRet' = (r.ret # Null)
    /\ UNCHANGED <<player, platforms, enemies, level, game, input, events, standTime,
                   checkpoints, camera, now>>

CCollect ==
    LET r == collect(collectibles[1]) IN
    /\ collectibles' = [collectibles EXCEPT ![1] = r.c]
    /\ ghost' = [ghost EXCEPT !.reports = IF r.ret # Null THEN @ + 1 ELSE @]
    /\ lastOp' = "collect"
    /\ lastArg' = 0
    /\ lastRet' = (r.ret # Null)
    /\ UNCHANGED <<player, platforms, enemies, level, game, input, events, standTime,
                   checkpoints, camera, now>>

CReset ==
    /\ collectibles' = [collectibles EXCEPT ![1] = CollectibleReset(collectibles[1])]
    /\ ghost' = [ghost EXCEPT !.reports = 0]
    /\ lastOp' = "collectibleReset"
    /\ lastArg' = 0
    /\ lastRet' = FALSE
    /\ UNCHANGED <<player, platforms, enemies, level, game, input, events, standTime,
                   checkpoints, camera, now>>

NextCollect ==
    \/ \E pos \in CollectPositions : CPlayerReset(pos)
    \/ CPlayerUpdate
    \/ \E dt \in CollectFrameTimes : CUpdate(dt)
    \/ CCheckPlayerCollision
    \/ CCollect
    \/ CReset

SpecCollect == InitCollect /\ [][NextCollect]_vars

\* C11: since the last reset of the collectible, at most one call has
\* returned a collection result; the collected flag is true exactly when a
\* result has been returned since that reset (so it never goes back to false
\* without a reset); and on a collected item checkPlayerCollision and collect
\* return null, whether or not the player overlaps it.
C11_SingleReport ==
    LET c == collectibles[1] IN
    /\ ghost.reports <= 1
    /\ c.collected <=> (ghost.reports = 1)
    /\ c.collected =>
          /\ CollectibleCheckPlayerCollision(c, player).ret = Null
          /\ CollectibleCheckPlayerCollision(c, player).c.collected
          /\ collect(c).ret = Null
          /\ collect(c).c.collected
          /\ CollectibleUpdate(c, MaxDeltaTime, player).collected

\* a checkPlayerCollision call on the collected coin, overlapped by the
\* player, has just returned null
C11_Witness ==
    /\ lastOp = "checkPlayerCollision"
    /\ ~lastRet
    /\ collectibles[1].collected
    /\ ghost.reports = 1
    /\ checkCollision(collectibles[1], player)

----------------------------------------------------------------------------
(* Specification SpecCheckpoint: the checkpoint of level 1 on its platform, *)
(* updated frame by frame while the player falls, is put elsewhere, takes   *)
(* damage, heals and respawns.                                              *)

CheckpointFloor == <<NewPlatform(7000, 4000, 2000, 400, "static")>>
TheCheckpoint == NewCheckpoint(7500, 3360)
\* on the platform left of the radius; in the air above the radius; in the
\* air at exactly activationRange, and one pixel further
CheckpointPositions == {<<7000, 3520>>, <<7500, 2900>>, <<7900, 3440>>, <<7910, 3440>>}
CheckpointFrameTimes == {400}
CheckpointDamages == {30}
CheckpointHeals == {30}
CheckpointClockSteps == {1000}

IsNear(c, p) == CenterDistanceSq(c, p) <= ActivationRange * ActivationRange

InitCheckpoint ==
    /\ player = NewPlayer(7000, 3520)
    /\ platforms = CheckpointFloor
    /\ enemies = <<>>
    /\ collectibles = <<>>
    /\ checkpoints = <<TheCheckpoint>>
    /\ level = NewLevel(16000, 7000, 3520, 15200, 4100, 0)
    /\ camera = NewCamera(Canvas.width, Canvas.height, 16000, 10000)
    /\ game = NewGame
    /\ input = NewInputManager
    /\ ghost = [NoGhost EXCEPT !.cpX = 7000, !.cpY = 3520, !.cpHealth = MaxHealth]
    /\ events = 0
    /\ now = 0
    /\ lastOp = "init"
    /\ lastArg = 0
    /\ lastRet = FALSE
    /\ standTime = 0

KPlayerReset(pos) ==
    /\ player' = PlayerReset(player, pos[1], pos[2])
    /\ ghost' = [ghost EXCEPT !.cpX = pos[1], !.cpY = pos[2], !.cpHealth = MaxHealth]
    /\ lastOp' = "reset"
    /\ lastArg' = 0
    /\ lastRet' = FALSE
    /\ UNCHANGED <<platforms, enemies, level, game, input, events, standTime,
                   collectibles, checkpoints, camera, now>>

KPlayerUpdate ==
    /\ player.y <= MaxFallY
    /\ player' = PlayerUpdate(player, platforms, now)
    /\ lastOp' = "update"
    /\ lastArg' = 0
    /\ lastRet' = FALSE
    /\ UNCHANGED <<worldVars, now>>

\* ghost.activations counts the updates that activated the checkpoint or
\* changed what the player has stored; ghost.cpX, cpY and cpHealth are the
\* position the activation is to store and the player's health at that moment
KCheckpointUpdate(deltaTime) ==
    LET c == checkpoints[1]
        r == CheckpointUpdate(c, deltaTime, player)
        fired == (r.p # player) \/ (~c.activated /\ r.c.activated)
    IN  /\ checkpoints' = [checkpoints EXCEPT ![1] = r.c]
        /\ player' = r.p
        /\ ghost' = [ghost EXCEPT
                        !.activations = IF fired THEN @ + 1 ELSE @,
                        !.everNear = @ \/ IsNear(c, player),
                        !.cpX = IF fired THEN c.x + c.width \div 2 - player.width \div 2
                                ELSE @,
                        !.cpY = IF fired THEN c.y + c.height - player.height ELSE @,
                        !.cpHealth = IF fired THEN player.health ELSE @]
        /\ lastOp' = "checkpointUpdate"
        /\ lastArg' = deltaTime
        /\ lastRet' = fired
        /\ UNCHANGED <<platforms, enemies, level, game, input, events, standTime,
                       collectibles, camera, now>>

KCheckpointReset ==
    /\ checkpoints' = [checkpoints EXCEPT ![1] = CheckpointReset(checkpoints[1])]
    /\ ghost' = [ghost EXCEPT !.activations = 0, !.everNear = FALSE]
    /\ lastOp' = "checkpointReset"
    /\ lastArg' = 0
    /\ lastRet' = FALSE
    /\ UNCHANGED <<player, platforms, enemies, level, game, input, events, standTime,
                   collectibles, camera, now>>

KTakeDamage(d) ==
    LET r == PlayerTakeDamage(player, d, now) IN
    /\ player' = r.p
    /\ lastOp' = "takeDamage"
    /\ lastArg' = d
    /\ lastRet' = r.ret
    /\ UNCHANGED <<worldVars, now>>

KHeal(a) ==
    /\ player' = heal(player, a)
    /\ lastOp' = "heal"
    /\ lastArg' = a
    /\ lastRet' = FALSE
    /\ UNCHANGED <<worldVars, now>>

KRespawn ==
    /\ player' = respawn(player, now)
    /\ lastOp' = "respawn"
    /\ lastArg' = 0
    /\ lastRet' = FALSE
    /\ UNCHANGED <<worldVars, now>>

KTick(dt) ==
    /\ now + dt <= MaxTime
    /\ now' = now + dt
    /\ lastOp' = "tick"
    /\ lastArg' = dt
    /\ lastRet' = FALSE
    /\ UNCHANGED <<player, worldVars>>

NextCheckpoint ==
    \/ \E pos \in CheckpointPositions : KPlayerReset(pos)
    \/ KPlayerUpdate
    \/ \E dt \in CheckpointFrameTimes : KCheckpointUpdate(dt)
    \/ KCheckpointReset
    \/ \E d \in CheckpointDamages : KTakeDamage(d)
    \/ \E a \in CheckpointHeals : KHeal(a)
    \/ KRespawn
    \/ \E dt \in CheckpointClockSteps : KTick(dt)

SpecCheckpoint == InitCheckpoint /\ [][NextCheckpoint]_vars

\* C12: since the last Checkpoint.reset the checkpoint has stored a
\* checkpoint in the player at most once; it is activated exactly when some
\* update frame since that reset found the player's center within
\* activationRange (so it fired on the first such frame); and once activated
\* a further update leaves the player's stored checkpoint alone and the
\* checkpoint activated, wherever the player is and whatever its health.
C12_EdgeTrigger ==
    LET c == checkpoints[1]
        r == CheckpointUpdate(c, MaxDeltaTime, player)
    IN  /\ ghost.activations <= 1
        /\ c.activated <=> (ghost.activations = 1)
        /\ c.activated <=> ghost.everNear
        /\ c.activated => (r.p = player /\ r.c.activated)

\* an update frame on the activated checkpoint with the player inside the
\* radius and a health other than the one stored has just ended
C12_Witness ==
    /\ lastOp = "checkpointUpdate"
    /\ ~lastRet
    /\ checkpoints[1].activated
    /\ IsNear(checkpoints[1], player)
    /\ player.health # player.lastCheckpointHealth

\* C13: right after Player.respawn the player stands at the position stored
\* by the most recent activation (checkpoint.x + checkpoint.width/2 -
\* player.width/2, checkpoint.y + checkpoint.height - player.height) with the
\* health it had at that activation, or, with no activation since the last
\* Player.reset, at the reset position with maxHealth.
C13_RespawnRestores ==
    lastOp = "respawn" =>
        /\ player.x = ghost.cpX
        /\ player.y = ghost.cpY
        /\ player.health = ghost.cpHealth

\* a respawn at the checkpoint of a player that activated it with 70 health
\* and then healed
C13_Witness ==
    /\ lastOp = "respawn"
    /\ checkpoints[1].activated
    /\ player.x = 7500 + CheckpointWidth \div 2 - PlayerWidth \div 2
    /\ player.y = 3360 + CheckpointHeight - PlayerHeight
    /\ player.health = 70
    /\ ghost.cpHealth = 70

----------------------------------------------------------------------------
(* The fall out of the world, checked under SpecHealth.                     *)

\* C16: at the end of every Player.update that leaves the player below the
\* vertical threshold (y > 1000 px) the player is dead, whether or not it
\* was invulnerable when the update began.
C16_FallIsFatal ==
    (lastOp = "update" /\ player.y > WorldHeight) => isDead(player)

----------------------------------------------------------------------------
(* Specification SpecBounds: the player moving over the platforms of       *)
(* level 1 (width 1600 px) under Player.setInput and Player.update.        *)

Level1Platforms ==
    <<NewPlatform(0, 5000, 3000, 400, "static"),
      NewPlatform(4000, 4500, 2000, 400, "static"),
      NewPlatform(7000, 4000, 2000, 400, "static"),
      NewPlatform(10000, 3500, 1500, 400, "static"),
      NewPlatform(12500, 3000, 2000, 400, "static"),
      NewPlatform(15000, 4500, 1000, 2000, "static")>>
Level1 == NewLevel(16000, 500, 4000, 15200, 4100, 0)
\* the level's start, and standing on the fifth platform
BoundsPositions == {<<500, 4000>>, <<14000, 2520>>}
BoundsKeys == {"left", "right", "jump"}

InitBounds ==
    /\ player = NewPlayer(Level1.playerStartX, Level1.playerStartY)
    /\ platforms = Level1Platforms
    /\ enemies = <<>>
    /\ collectibles = <<>>
    /\ checkpoints = <<>>
    /\ level = Level1
    /\ camera = NewCamera(Canvas.width, Canvas.height, Level1.width, Level1.height)
    /\ game = NewGame
    /\ input = NewInputManager
    /\ ghost = NoGhost
    /\ events = 0
    /\ now = 0
    /\ lastOp = "init"
    /\ lastArg = 0
    /\ lastRet = FALSE
    /\ standTime = 0

BPlayerReset(pos) ==
    /\ player' = PlayerReset(player, pos[1], pos[2])
    /\ lastOp' = "reset"
    /\ lastArg' = 0
    /\ lastRet' = FALSE
    /\ UNCHANGED <<worldVars, now>>

BSetInput(key, pressed) ==
    /\ events < MaxKeyEvents
    /\ events' = events + 1
    /\ player' = setInput(player, key, pressed)
    /\ lastOp' = "setInput"
    /\ lastArg' = 0
    /\ lastRet' = pressed
    /\ UNCHANGED <<platforms, enemies, level, game, input, standTime, itemVars, now>>

BPlayerUpdate ==
    /\ player.y <= MaxFallY
    /\ player' = PlayerUpdate(player, platforms, now)
    /\ lastOp' = "update"
    /\ lastArg' = 0
    /\ lastRet' = FALSE
    /\ UNCHANGED <<worldVars, now>>

NextBounds ==
    \/ \E pos \in BoundsPositions : BPlayerReset(pos)
    \/ \E key \in BoundsKeys, pressed \in BOOLEAN : BSetInput(key, pressed)
    \/ BPlayerUpdate

SpecBounds == InitBounds /\ [][NextBounds]_vars

\* C15: after every Player.update the player's x is within the level:
\* 0 <= x <= level.width - player.width.
C15_WithinLevel ==
    lastOp = "update" => (0 <= player.x /\ player.x <= level.width - player.width)

----------------------------------------------------------------------------
(* The Game's operations on the whole world: loading, starting and         *)
(* restarting levels (part_000).                                           *)

\* Level 1 is generated in full. The walk from a level's start to its goal
\* takes some 300 frames, so levels 2 and up are cut down to their last
\* stretch: the goal platform with the objects on it, the player entering
\* on that platform just outside the goal's radius. Level 6
\* stands for the procedural levels (width 1600 + 200n, goal at width - 100).
BossTimeLimit == 120000

GenerateLevel(n) ==
    IF n = 1
    THEN [platforms |-> Level1Platforms,
          enemies |-> <<>>,
          collectibles |-> <<NewCollectible(1200, 4600, "coin"),
                             NewCollectible(4800, 4100, "coin"),
                             NewCollectible(7800, 3600, "gem"),
                             NewCollectible(10800, 3100, "coin"),
                             NewCollectible(13300, 2600, "star")>>,
          checkpoints |-> <<NewCheckpoint(7500, 3360)>>,
          level |-> Level1]
    ELSE IF n = 2
    THEN [platforms |-> <<NewPlatform(16000, 4000, 1000, 400, "static")>>,
          enemies |-> <<>>,
          collectibles |-> <<NewCollectible(16400, 3600, "coin")>>,
          checkpoints |-> <<>>,
          level |-> NewLevel(18000, 16530, 3500, 16200, 3600, 0)]
    ELSE IF n = 3
    THEN [platforms |-> <<NewPlatform(17000, 4000, 2000, 400, "static")>>,
          enemies |-> <<NewEnemy(17500, 3600, "patrol")>>,
          collectibles |-> <<NewCollectible(17800, 3600, "star")>>,
          checkpoints |-> <<>>,
          level |-> NewLevel(20000, 18600, 3500, 18200, 3600, 0)]
    ELSE IF n = 4
    THEN [platforms |-> <<NewPlatform(19500, 4000, 1500, 400, "bouncy")>>,
          enemies |-> <<>>,
          collectibles |-> <<NewCollectible(19900, 3600, "star")>>,
          checkpoints |-> <<>>,
          level |-> NewLevel(22000, 20700, 3500, 20200, 3600, 0)]
    ELSE IF n = 5
    THEN [platforms |-> <<NewPlatform(16500, 4000, 1500, 1000, "static")>>,
          enemies |-> <<NewEnemy(17000, 3600, "chase")>>,
          collectibles |-> <<NewCollectible(17200, 3600, "gem")>>,
          checkpoints |-> <<>>,
          level |-> NewLevel(18000, 17530, 3500, 17200, 3600, BossTimeLimit)]
    ELSE [platforms |-> <<NewPlatform(16000 + 2000 * n - 2000, 4500, 2000, 400, "static")>>,
          enemies |-> <<>>,
          collectibles |-> <<>>,
          checkpoints |-> <<>>,
          level |-> NewLevel(16000 + 2000 * n, 16000 + 2000 * n - 500, 4000,
                             16000 + 2000 * n - 1000, 3500, 0)]

loadLevel(w, levelNumber, currentTime) ==
    LET L == GenerateLevel(levelNumber)
    IN  [w EXCEPT !.platforms = L.platforms, !.enemies = L.enemies,
                  !.collectibles = L.collectibles, !.checkpoints = L.checkpoints,
                  !.level = [L.level EXCEPT !.startTime = currentTime],
                  !.camera = setWorldBounds(w.camera, L.level.width, L.level.height)]

startGame(w, currentTime) ==
    loadLevel([w EXCEPT !.game.state = "playing", !.game.score = 0,
                        !.game.totalScore = 0, !.game.currentLevelNumber = 1,
                        !.game.lives = 3,
                        !.player = PlayerReset(w.player, 500, 4000)],
              1, currentTime)

restartLevel(w, currentTime) ==
    LET w1 == [w EXCEPT !.game.state = "playing",
                        !.player = PlayerReset(w.player, w.level.playerStartX,
                                               w.level.playerStartY)]
        w2 == LevelReset(w1, currentTime)
    IN  [w2 EXCEPT !.camera = setWorldBounds(w2.camera, w2.level.width, w2.level.height)]

restartGame(w, currentTime) ==
    startGame([w EXCEPT !.game.currentLevelNumber = 1, !.game.score = 0,
                        !.game.totalScore = 0, !.game.lives = 3],
              currentTime)

nextLevel(w, currentTime) ==
    LET w1 == loadLevel([w EXCEPT !.game.currentLevelNumber = @ + 1,
                                  !.game.totalScore = @ + w.game.score,
                                  !.game.score = 0],
                        w.game.currentLevelNumber + 1, currentTime)
    IN  [w1 EXCEPT !.player = PlayerReset(w1.player, w1.level.playerStartX,
                                          w1.level.playerStartY),
                   !.game.state = "playing"]

showMainMenu(w) == [w EXCEPT !.game.state = "menu"]

\* Game.setupGame: camera, player, level 1 and the first iteration of the
\* game loop, which startGameLoop runs at once
setupGame(w, currentTime) ==
    LET w1 == loadLevel([w EXCEPT !.camera = NewCamera(Canvas.width, Canvas.height,
                                                       20000, 10000),
                                  !.player = NewPlayer(500, 4000)],
                        w.game.currentLevelNumber, currentTime)
    IN  gameLoop([w1 EXCEPT !.game.lastFrameTime = currentTime], currentTime, 0, 0)

\* Game.initialize
initialize(w, currentTime) ==
    LET w1 == setupGame([w EXCEPT !.input = NewInputManager], currentTime)
    IN  [w1 EXCEPT !.game.state = "menu"]

\* the keydown listener of setupUIEventListeners
keyboardShortcut(w, code, currentTime) ==
    IF code = "Escape"
    THEN IF w.game.state = "playing" THEN [w EXCEPT !.game = pauseGame(w.game)]
         ELSE IF w.game.state = "paused" THEN [w EXCEPT !.game = resumeGame(w.game)]
         ELSE w
    ELSE IF code = "KeyR"
    THEN IF w.game.state = "gameOver" \/ w.game.state = "levelComplete"
         THEN restartLevel(w, currentTime)
         ELSE w
    ELSE IF code = "Enter"
    THEN IF w.game.state = "menu" THEN startGame(w, currentTime) ELSE w
    ELSE w

----------------------------------------------------------------------------
(* Specification SpecGame: the whole game, from the constructed Game       *)
(* through initialize, with the buttons, the keyboard and the animation    *)
(* frames in any order.                                                    *)

MaxLevelNumber == 2      \* the next-level button is used up to this level
MaxGameEvents == 3       \* number of clicks and key events delivered in a run
MaxGameTime == 250       \* frames follow each other for this many ms
\* the time between two frames: a regular one, and, once in a run, a pause
\* as long as the time limit of level 5 (a hidden tab)
LongGap == BossTimeLimit
GameFrameGaps == {MaxDeltaTime, LongGap}
GameKeys == {"left"}
ShortcutCodes == {"Escape", "KeyR", "Enter"}
Buttons == {"startBtn", "restartBtn", "nextLevelBtn", "levelRestartBtn", "mainMenuBtn"}

\* the Game as constructed: state 'loading', no level yet
Constructed ==
    [game |-> [NewGame EXCEPT !.state = "loading"],
     player |-> NewPlayer(500, 4000),
     platforms |-> <<>>, enemies |-> <<>>, collectibles |-> <<>>, checkpoints |-> <<>>,
     level |-> NewLevel(20000, 500, 4000, 19000, 3000, 0),
     camera |-> NewCamera(Canvas.width, Canvas.height, 20000, 10000),
     input |-> NewInputManager]

\* the world that initialize, startGame and levelNumber - 1 calls of
\* nextLevel, all at time 0 and with no frame in between, leave behind
AtLevel(levelNumber) ==
    LET L == GenerateLevel(levelNumber)
    IN  [game |-> [NewGame EXCEPT !.state = "playing",
                                  !.currentLevelNumber = levelNumber],
         player |-> PlayerReset(NewPlayer(500, 4000), L.level.playerStartX,
                                L.level.playerStartY),
         platforms |-> L.platforms, enemies |-> L.enemies,
         collectibles |-> L.collectibles, checkpoints |-> L.checkpoints,
         level |-> L.level,
         camera |-> setWorldBounds(initialize(Constructed, 0).camera,
                                   L.level.width, L.level.height),
         input |-> NewInputManager]

\* the game started and taken to level 5, the level with a time limit
AtBossLevel == AtLevel(5)

InitGame ==
    /\ \E w \in {Constructed, AtBossLevel} :
          /\ game = w.game
          /\ player = w.player
          /\ platforms = w.platforms
          /\ enemies = w.enemies
          /\ collectibles = w.collectibles
          /\ checkpoints = w.checkpoints
          /\ level = w.level
          /\ camera = w.camera
          /\ input = w.input
          /\ lastOp = IF w.game.state = "loading" THEN "init" ELSE "nextLevelBtn"
    /\ ghost = NoGhost
    /\ events = 0
    /\ now = 0
    /\ lastArg = 0
    /\ lastRet = FALSE
    /\ standTime = 0

\* the score the collectibles collected between two worlds are worth
RECURSIVE CollectedScoreFrom(_, _, _)
CollectedScoreFrom(before, after, i) ==
    IF i > Len(before) THEN 0
    ELSE (IF ~before[i].collected /\ after[i].collected
             /\ getCollectionEffect(before[i].type) # "health"
          THEN TypeValue(before[i].type) ELSE 0)
         + CollectedScoreFrom(before, after, i + 1)

\* the bonus a completion at time currentTime with this health is to give
ExpectedBonus(lv, health, currentTime) ==
    health + (IF lv.timeLimit = 0 THEN 0
              ELSE (1000 * Max(0, lv.timeLimit - (currentTime - lv.startTime)))
                   \div lv.timeLimit)

\* ghost.prevState is the state before the step, ghost.loaded tells that
\* the step installed a new Level object, and ghost.expectedScore is the
\* score since the last start of a game or level, counted from what was
\* collected and from one bonus per completion; ghost.levelTotal is the
\* totalScore with which the current Level object was installed
GStep(w, op, arg, loaded, expected) ==
    /\ SetWorld(w)
    /\ ghost' = [ghost EXCEPT !.prevState = game.state, !.loaded = loaded,
                              !.expectedScore = expected,
                              !.levelTotal = IF loaded THEN w.game.totalScore ELSE @]
    /\ lastOp' = op
    /\ lastArg' = arg
    /\ lastRet' = FALSE
    /\ UNCHANGED standTime

GInitialize ==
    /\ game.state = "loading"
    /\ GStep(initialize(World, now), "initialize", 0, TRUE, 0)
    /\ UNCHANGED <<now, events>>

GButton(b) ==
    /\ game.state # "loading"
    /\ events < MaxGameEvents
    /\ events' = events + 1
    /\ b = "nextLevelBtn" => game.currentLevelNumber < MaxLevelNumber
    /\ GStep(IF b = "startBtn" THEN startGame(World, now)
             ELSE IF b = "restartBtn" THEN restartGame(World, now)
             ELSE IF b = "nextLevelBtn" THEN nextLevel(World, now)
             ELSE IF b = "levelRestartBtn" THEN restartLevel(World, now)
             ELSE showMainMenu(World),
             b, 0,
             b \in {"startBtn", "restartBtn", "nextLevelBtn"},
             IF b \in {"startBtn", "restartBtn", "nextLevelBtn"} THEN 0
             ELSE ghost.expectedScore)
    /\ UNCHANGED now

GKeyShortcut(code) ==
    /\ game.state # "loading"
    /\ events < MaxGameEvents
    /\ events' = events + 1
    /\ GStep(keyboardShortcut(
                 IF code = "Escape"
                 THEN [World EXCEPT !.input = handleKeyDown(input, "pause")]
                 ELSE World,
                 code, now),
             code, 0,
             code = "Enter" /\ game.state = "menu",
             IF code = "Enter" /\ game.state = "menu" THEN 0 ELSE ghost.expectedScore)
    /\ UNCHANGED now

GKeyDown(a) ==
    /\ game.state # "loading"
    /\ events < MaxGameEvents
    /\ events' = events + 1
    /\ ~input.keys[a]
    /\ GStep([World EXCEPT !.input = handleKeyDown(input, a)], "keydown", 0, FALSE,
             ghost.expectedScore)
    /\ UNCHANGED now

GKeyUp(a) ==
    /\ game.state # "loading"
    /\ events < MaxGameEvents
    /\ events' = events + 1
    /\ input.keys[a]
    /\ GStep([World EXCEPT !.input = handleKeyUp(input, a)], "keyup", 0, FALSE,
             ghost.expectedScore)
    /\ UNCHANGED now

\* the frame at time currentTime has left the world w
GFrameStep(w, gap, currentTime) ==
    GStep(w, "frame", gap, FALSE,
          ghost.expectedScore
          + CollectedScoreFrom(collectibles, w.collectibles, 1)
          + (IF ~level.completed /\ w.level.completed
             THEN ExpectedBonus(level, w.player.health, currentTime)
             ELSE 0))

\* one iteration of Game.gameLoop, gap ms after the previous one
GFrame(gap) ==
    /\ game.state # "loading"
    /\ player.y <= MaxFallY
    /\ IF gap = LongGap THEN now < LongGap
       ELSE (now % LongGap) + gap <= MaxGameTime
    /\ now' = now + gap
    /\ \E rx \in ShakeChoices(camera), ry \in ShakeChoices(camera) :
          GFrameStep(gameLoop(World, now + gap, rx, ry), gap, now + gap)
    /\ UNCHANGED events

NextGame ==
    \/ GInitialize
    \/ \E b \in Buttons : GButton(b)
    \/ \E code \in ShortcutCodes : GKeyShortcut(code)
    \/ \E a \in GameKeys : GKeyDown(a)
    \/ \E a \in GameKeys : GKeyUp(a)
    \/ \E gap \in GameFrameGaps : GFrame(gap)

SpecGame == InitGame /\ [][NextGame]_vars

\* C14: once a Level object is completed it stays completed for as long as
\* it is the game's current level: a step that does not install a new Level
\* object never takes completed from true back to false.
C14_CompletedMonotonic ==
    [][(level.completed /\ ~ghost'.loaded) => level'.completed]_vars

\* the transitions of Game.state named by the state diagram
ClaimedTransitions ==
    {<<"loading", "menu">>, <<"menu", "playing">>, <<"playing", "paused">>,
     <<"paused", "playing">>, <<"playing", "gameOver">>,
     <<"playing", "levelComplete">>, <<"levelComplete", "playing">>,
     <<"levelComplete", "menu">>}

\* C17 as stated: every change of Game.state is one of loading->menu,
\* menu->playing, playing->paused, paused->playing, playing->gameOver,
\* playing->levelComplete, levelComplete->playing, levelComplete->menu.
C17_ClaimedTransitionsOnly ==
    [][game'.state # game.state => <<game.state, game'.state>> \in ClaimedTransitions]_vars

\* the claimed transitions, and the ways out of gameOver and into the menu
GameTransitions ==
    ClaimedTransitions \cup
    {<<"gameOver", "playing">>, <<"gameOver", "menu">>, <<"playing", "menu">>,
     <<"paused", "menu">>}

\* C17 (amended): every change of Game.state is one of the claimed
\* transitions or gameOver->playing, gameOver->menu, playing->menu,
\* paused->menu; so 'loading' is never entered again and paused, gameOver
\* and levelComplete are entered from 'playing' only.
C17_Transitions ==
    [][game'.state # game.state => <<game.state, game'.state>> \in GameTransitions]_vars

\* the R key has just restarted the level from the game-over screen
C17_Witness ==
    /\ lastOp = "KeyR"
    /\ ghost.prevState = "gameOver"
    /\ game.state = "playing"

\* C18: a frame processed while the game is paused leaves the player, the
\* level's platforms, enemies, collectibles and checkpoints, the score, the
\* lives and the camera's position and velocity unchanged.
C18_PausedFrameFrozen ==
    [][(game.state = "paused" /\ lastOp' = "frame") =>
          /\ player' = player
          /\ platforms' = platforms
          /\ enemies' = enemies
          /\ collectibles' = collectibles
          /\ checkpoints' = checkpoints
          /\ game'.score = game.score
          /\ game'.lives = game.lives
          /\ camera'.x = camera.x
          /\ camera'.y = camera.y
          /\ camera'.velocityX = camera.velocityX
          /\ camera'.velocityY = camera.velocityY]_vars

\* C19: the deltaTime of every iteration of the game loop is between 0 and
\* 50 ms, whatever time separates two frames.
C19_DeltaTimeClamped == 0 <= game.deltaTime /\ game.deltaTime <= 50

\* a frame that came a long pause after the previous one, with deltaTime 50
C19_Witness ==
    /\ lastOp = "frame"
    /\ lastArg = LongGap
    /\ game.deltaTime = 50

\* C20: the score is what was collected plus, for each completion of a
\* level, one bonus of floor(health) + floor(1000 x remainingTime /
\* timeLimit) (no time part without a time limit), added on the frame the
\* level becomes completed and on no later frame.
C20_BonusOnce == game.score = ghost.expectedScore

\* a later frame on the completed level 5, whose completion gave a time
\* bonus: the score has not moved again
C20_Witness ==
    /\ lastOp = "frame"
    /\ ghost.prevState = "levelComplete"
    /\ level.completed
    /\ level.timeLimit # 0
    /\ game.score > 900

----------------------------------------------------------------------------
(* Specification SpecInput: the InputManager alone, with keyboard events   *)
(* arriving in any order between the per-frame calls of update.            *)

\* the actions of the key map; lastArg is the index of the action an event
\* was about
InputActions == <<"left", "right", "jump", "pause">>

InitInput ==
    /\ input = NewInputManager
    /\ player = NewPlayer(Level1.playerStartX, Level1.playerStartY)
    /\ platforms = Level1Platforms
    /\ enemies = <<>>
    /\ collectibles = <<>>
    /\ checkpoints = <<>>
    /\ level = Level1
    /\ camera = NewCamera(Canvas.width, Canvas.height, Level1.width, Level1.height)
    /\ game = NewGame
    /\ ghost = NoGhost
    /\ events = 0
    /\ now = 0
    /\ lastOp = "init"
    /\ lastArg = 0
    /\ lastRet = FALSE
    /\ standTime = 0

\* a key of action InputActions[i] goes down
IKeyDown(i) ==
    /\ ~input.keys[InputActions[i]]
    /\ input' = handleKeyDown(input, InputActions[i])
    /\ lastOp' = "keydown"
    /\ lastArg' = i
    /\ lastRet' = FALSE
    /\ UNCHANGED <<player, platforms, enemies, level, game, now, events, standTime,
                   itemVars>>

\* the key of action InputActions[i] goes up
IKeyUp(i) ==
    /\ input.keys[InputActions[i]]
    /\ input' = handleKeyUp(input, InputActions[i])
    /\ lastOp' = "keyup"
    /\ lastArg' = i
    /\ lastRet' = FALSE
    /\ UNCHANGED <<player, platforms, enemies, level, game, now, events, standTime,
                   itemVars>>

\* the per-frame InputManager.update
IUpdate ==
    /\ input' = InputUpdate(input)
    /\ lastOp' = "inputUpdate"
    /\ lastArg' = 0
    /\ lastRet' = FALSE
    /\ UNCHANGED <<player, platforms, enemies, level, game, now, events, standTime,
                   itemVars>>

NextInput ==
    \/ \E i \in 1..Len(InputActions) : IKeyDown(i)
    \/ \E i \in 1..Len(InputActions) : IKeyUp(i)
    \/ IUpdate

SpecInput == InitInput /\ [][NextInput]_vars

\* C21: after the update of the first frame that follows a key-down event,
\* isJustPressed of that action is true, and after the update of the first
\* frame that follows a key-up event, isJustReleased of that action is true.
C21_EdgesSeenAfterUpdate ==
    [][lastOp' = "inputUpdate" =>
          /\ lastOp = "keydown" => isJustPressed(input', InputActions[lastArg])
          /\ lastOp = "keyup" => isJustReleased(input', InputActions[lastArg])]_vars

----------------------------------------------------------------------------
(* Specification SpecLives: playing frames of a game in progress in which  *)
(* the player can die: falling out of the world, or with its last health   *)
(* points next to the chasing enemy and the goal of level 5.               *)

MaxLivesEvents == 2      \* number of key events delivered in a run
MaxLivesTime == 700      \* frames follow each other for this many ms
LivesNow == BossTimeLimit    \* the time at which the run starts (ms)
LivesPlayed == 5000      \* the level has been played for this long (ms)
\* a fall below the platforms
LivesFallPosition == <<5000, 9995>>
\* the games in progress: level number, lives left, health, whether the
\* player is falling, and the time since the level was loaded (on level 5
\* also one frame short of its time limit)
LivesStarts ==
    {<<1, lives, MaxHealth, TRUE, LivesPlayed>> : lives \in {1, 2}}
    \cup {<<5, lives, health, FALSE, LivesPlayed>> :
             lives \in {1, 2}, health \in {EnemyDamage, MaxHealth}}
    \cup {<<5, lives, MaxHealth, TRUE, BossTimeLimit - MaxDeltaTime>> : lives \in {1, 2}}

\* the world at the point of Game.updatePlaying where checkGameConditions
\* is called, l1 being what Level.update returned
AtCheckGameConditionsFrom(w, l1, currentTime) ==
    handleCollisions(l1.enemies, l1.collectibles, w.game, l1.player, w.camera,
                     currentTime)

AtCheckGameConditions(w, deltaTime, currentTime) ==
    AtCheckGameConditionsFrom(
        w,
        LevelUpdate(w.platforms, w.enemies, w.collectibles, w.checkpoints, w.level,
                    deltaTime,
                    PlayerUpdate(updatePlayerInput(w.player, w.input), w.platforms,
                                 currentTime)),
        currentTime)

\* the game in progress described by start, a member of LivesStarts
InProgress(start) ==
    [AtLevel(start[1]) EXCEPT
        !.game.lives = start[2],
        !.game.lastFrameTime = LivesNow,
        !.level.startTime = LivesNow - start[5],
        !.player.health = start[3],
        !.player.x = IF start[4] THEN LivesFallPosition[1] ELSE @,
        !.player.y = IF start[4] THEN LivesFallPosition[2] ELSE @]

\* the variables hold the world w at time currentTime
InitLivesAt(w, currentTime) ==
    /\ game = w.game
    /\ player = w.player
    /\ platforms = w.platforms
    /\ enemies = w.enemies
    /\ collectibles = w.collectibles
    /\ checkpoints = w.checkpoints
    /\ level = w.level
    /\ camera = w.camera
    /\ input = w.input
    /\ now = currentTime

InitLives ==
    /\ \E start \in LivesStarts : InitLivesAt(InProgress(start), LivesNow)
    /\ ghost = [NoGhost EXCEPT !.prevState = "playing"]
    /\ events = 0
    /\ lastOp = "init"
    /\ lastArg = 0
    /\ lastRet = FALSE
    /\ standTime = 0

LKeyDown(a) ==
    /\ events < MaxLivesEvents
    /\ events' = events + 1
    /\ ~input.keys[a]
    /\ GStep([World EXCEPT !.input = handleKeyDown(input, a)], "keydown", 0, FALSE,
             ghost.expectedScore)
    /\ UNCHANGED now

LKeyUp(a) ==
    /\ events < MaxLivesEvents
    /\ events' = events + 1
    /\ input.keys[a]
    /\ GStep([World EXCEPT !.input = handleKeyUp(input, a)], "keyup", 0, FALSE,
             ghost.expectedScore)
    /\ UNCHANGED now

\* one iteration of Game.gameLoop, gap ms after the previous one; lastRet
\* tells whether the player was dead when checkGameConditions ran
LFrame(gap) ==
    /\ player.y <= MaxFallY
    /\ now - LivesNow + gap <= MaxLivesTime
    /\ now' = now + gap
    /\ \E r \in ShakeChoices(camera) : SetWorld(gameLoop(World, now + gap, r, r))
    /\ ghost' = [ghost EXCEPT !.prevState = game.state]
    /\ lastOp' = "frame"
    /\ lastArg' = gap
    /\ lastRet' = (/\ game.state = "playing"
                   /\ isDead(AtCheckGameConditions(
                                 [World EXCEPT !.input = InputUpdate(input)],
                                 Min(now + gap - game.lastFrameTime, MaxDeltaTime),
                                 now + gap).player))
    /\ UNCHANGED <<events, standTime>>

NextLives ==
    \/ \E a \in GameKeys : LKeyDown(a)
    \/ \E a \in GameKeys : LKeyUp(a)
    \/ \E gap \in FrameGaps : LFrame(gap)

SpecLives == InitLives /\ [][NextLives]_vars

\* the player as checkGameConditions finds it in the frame that starts in
\* the current state and runs at time currentTime
PlayerAtConditions(currentTime) ==
    AtCheckGameConditions([World EXCEPT !.input = InputUpdate(input)],
                          Min(currentTime - game.lastFrameTime, MaxDeltaTime),
                          currentTime).player

\* C22: in a playing frame in which the player is dead when
\* checkGameConditions runs, lives goes down by exactly 1; if lives is then
\* > 0 the player is respawned (checkpoint position and health, invulnerable
\* from now) and the state stays 'playing', otherwise the game is over; in
\* a playing frame in which the player is not dead, lives does not change.
C22_DeathHandling ==
    [][(game.state = "playing" /\ lastOp' = "frame") =>
          IF isDead(PlayerAtConditions(now'))
          THEN /\ game'.lives = game.lives - 1
               /\ IF game'.lives > 0
                  THEN /\ player' = respawn(PlayerAtConditions(now'), now')
                       /\ game'.state = "playing"
                  ELSE game'.state = "gameOver"
          ELSE game'.lives = game.lives]_vars

----------------------------------------------------------------------------
(* Specification SpecStomp: playing frames on level 3, whose enemy the     *)
(* player can stomp; the frames go on for as long as a dead enemy is in    *)
(* the level.                                                              *)

MaxStompEvents == 2      \* number of key events delivered in a run
MaxStompTime == 400      \* frames follow each other for at least this many ms
\* in the air above the enemy, and where the level starts the player
StompPositions == {<<17500, 3000>>, <<18600, 3500>>}

\* some enemy of the level is dead and not yet removed
DeadEnemyPresent == \E i \in 1..Len(enemies) : ~enemies[i].isAlive

InitStomp ==
    /\ \E pos \in StompPositions :
          InitLivesAt([AtLevel(3) EXCEPT !.player.x = pos[1], !.player.y = pos[2]], 0)
    /\ ghost = [NoGhost EXCEPT !.prevState = "playing"]
    /\ events = 0
    /\ lastOp = "init"
    /\ lastArg = 0
    /\ lastRet = FALSE
    /\ standTime = 0

SKeyDown(a) ==
    /\ events < MaxStompEvents
    /\ events' = events + 1
    /\ ~input.keys[a]
    /\ GStep([World EXCEPT !.input = handleKeyDown(input, a)], "keydown", 0, FALSE,
             ghost.expectedScore)
    /\ UNCHANGED now

SKeyUp(a) ==
    /\ events < MaxStompEvents
    /\ events' = events + 1
    /\ input.keys[a]
    /\ GStep([World EXCEPT !.input = handleKeyUp(input, a)], "keyup", 0, FALSE,
             ghost.expectedScore)
    /\ UNCHANGED now

\* an animation frame is due gap ms after the previous one: the clock
\* advances to it (no other step moves the clock)
SFrameDue(gap) ==
    /\ now + gap <= MaxStompTime \/ (game.state = "playing" /\ DeadEnemyPresent)
    /\ now' = now + gap

\* one iteration of Game.gameLoop, gap ms after the previous one;
\* ghost.deadTime is the deltaTime of the playing frames that began with a
\* dead enemy in the level, added up since the enemy died
SFrame(gap) ==
    /\ SFrameDue(gap)
    /\ \E r \in ShakeChoices(camera) : SetWorld(gameLoop(World, now + gap, r, r))
    /\ ghost' = [ghost EXCEPT
                    !.prevState = game.state,
                    !.deadTime = IF game.state = "playing" /\ DeadEnemyPresent
                                 THEN @ + Min(now + gap - game.lastFrameTime, MaxDeltaTime)
                                 ELSE 0]
    /\ lastOp' = "frame"
    /\ lastArg' = gap
    /\ lastRet' = FALSE
    /\ UNCHANGED <<events, standTime>>

NextStomp ==
    \/ \E a \in GameKeys : SKeyDown(a)
    \/ \E a \in GameKeys : SKeyUp(a)
    \/ \E gap \in FrameGaps : SFrame(gap)

\* gameLoop requests the next animation frame at the end of every
\* iteration: the frames keep coming
SpecStomp ==
    InitStomp /\ [][NextStomp]_vars /\ WF_now(\E gap \in FrameGaps : SFrameDue(gap))

\* the dead enemy e is still in the level as e2, where it was
Frozen(e, e2) ==
    /\ ~e2.isAlive
    /\ e2.x = e.x
    /\ e2.y = e.y
    /\ e.velocityX = 0
    /\ e2.velocityX = 0

\* C23: from its death to its removal a dead enemy keeps its x and y, its
\* velocityX is 0 and the player loses no health to it; a playing frame
\* removes it from the level exactly when the deltaTime added up since its
\* death has reached deathDuration; and as the playing frames keep coming,
\* every dead enemy is eventually removed.
C23_DeadEnemyTimesOut ==
    /\ [][DeadEnemyPresent =>
             /\ \A i \in 1..Len(enemies) :
                   ~enemies[i].isAlive =>
                       \/ \E j \in 1..Len(enemies') : Frozen(enemies[i], enemies'[j])
                       \/ /\ ~DeadEnemyPresent'
                          /\ ghost'.deadTime >= DeathDuration
             /\ player'.health >= player.health
             /\ (lastOp' = "frame" /\ game.state = "playing") =>
                   (DeadEnemyPresent' <=> ghost'.deadTime < DeathDuration)]_vars
    /\ (DeadEnemyPresent ~> (~DeadEnemyPresent \/ game.state # "playing"))

\* the stomped enemy has just been removed, 1000 ms of playing frames after
\* its death
C23_Witness ==
    /\ lastOp = "frame"
    /\ enemies = <<>>
    /\ ghost.deadTime = DeathDuration
    /\ game.state = "playing"

\* the player p, moved by the frame's physics, comes down onto the top of
\* platform pl (the landing branch of the collision pass)
LandsOn(p, pl) ==
    /\ checkCollision(p, pl)
    /\ Min(p.x + p.width - pl.x, pl.x + pl.width - p.x)
          >= Min(p.y + p.height - pl.y, pl.y + pl.height - p.y)
    /\ p.y < pl.y

\* the player after the input and physics steps of the frame that starts
\* in the current state
PlayerAfterPhysics ==
    PlayerUpdatePhysics(HandleInput(updatePlayerInput(player, InputUpdate(input))))

\* C24: a playing frame in which the player lands from above on a bouncy
\* platform leaves the player with velocityY = -bounceForce, isGrounded
\* true and the double-jump flags reset.
C24_BouncyLanding ==
    [][(/\ game.state = "playing"
        /\ lastOp' = "frame"
        /\ \E i \in 1..Len(platforms) :
              platforms[i].type = "bouncy" /\ LandsOn(PlayerAfterPhysics, platforms[i]))
       => /\ player'.velocityY = -BounceForce
          /\ player'.isGrounded
          /\ ~player'.canDoubleJump
          /\ ~player'.hasDoubleJumped]_vars

----------------------------------------------------------------------------
(* The camera on its own: the target moves, levels are loaded, shakes start *)

MaxCameraEvents == 2
MaxCameraTime == 150

\* places the followed player can be at (x, y, velocityX): the start of a
\* level, in a jump from level 1's second platform, the middle of the widest
\* level near the floor, its far end near the top
CameraTargets == {<<500, 4000, 0>>, <<4500, 3900, PlayerSpeed>>,
                  <<9000, 9000, -PlayerSpeed>>, <<21720, 200, PlayerSpeed>>}

\* the widths of the levels a load can set (levels 1 and 4)
WorldWidths == {16000, 22000}

\* the shake of a killed player: startShake(8, 500)
DeathShake == [intensity |-> 80, duration |-> 500]

\* where a run starts (world width, player x, player y, camera x): at the
\* start of level 1, or at rest at the far end of level 4, where the camera
\* has come to stand at the world's right edge
CameraStarts == {<<16000, 500, 4000, 0>>, <<22000, 21720, 200, 14000>>}

InitCamera ==
    /\ \E s \in CameraStarts :
          /\ camera = [setWorldBounds(NewCamera(Canvas.width, Canvas.height,
                                                20000, 10000),
                                      s[1], Level1.height) EXCEPT !.x = s[4]]
          /\ player = NewPlayer(s[2], s[3])
    /\ platforms = <<>>
    /\ enemies = <<>>
    /\ collectibles = <<>>
    /\ checkpoints = <<>>
    /\ level = Level1
    /\ input = NewInputManager
    /\ game = NewGame
    /\ ghost = NoGhost
    /\ events = 0
    /\ now = 0
    /\ lastOp = "init"
    /\ lastArg = 0
    /\ lastRet = FALSE
    /\ standTime = 0

\* the followed player is somewhere else, with another horizontal velocity
VTargetMoves(t) ==
    /\ events < MaxCameraEvents
    /\ <<player.x, player.y, player.velocityX>> # t
    /\ player' = [player EXCEPT !.x = t[1], !.y = t[2], !.velocityX = t[3]]
    /\ events' = events + 1
    /\ lastOp' = "targetMoves"
    /\ lastArg' = 0
    /\ UNCHANGED <<camera, lastRet, platforms, enemies, level, game, now, input,
                   standTime, collectibles, checkpoints, ghost>>

\* Game.loadLevel and Game.restartLevel: the camera gets the level's size
VSetWorldBounds(width) ==
    /\ events < MaxCameraEvents
    /\ camera' = setWorldBounds(camera, width, level.height)
    /\ level' = [level EXCEPT !.width = width]
    /\ events' = events + 1
    /\ lastOp' = "setWorldBounds"
    /\ lastArg' = width
    /\ lastRet' = TRUE
    /\ UNCHANGED <<player, platforms, enemies, game, now, input, standTime,
                   collectibles, checkpoints, ghost>>

VStartShake ==
    /\ events < MaxCameraEvents
    /\ ~camera.shakeActive
    /\ camera' = startShake(camera, DeathShake.intensity, DeathShake.duration)
    /\ events' = events + 1
    /\ lastOp' = "startShake"
    /\ lastArg' = 0
    /\ UNCHANGED <<player, lastRet, platforms, enemies, level, game, now, input,
                   standTime, collectibles, checkpoints, ghost>>

\* Camera.update of one frame; lastRet tells whether the bounds changed since
\* the update before, lastArg which random numbers the frame drew
VCameraUpdate(deltaTime, rx, ry) ==
    /\ now + deltaTime <= MaxCameraTime
    /\ camera' = CameraUpdate(camera, player, deltaTime, rx, ry)
    /\ now' = now + deltaTime
    /\ lastOp' = "cameraUpdate"
    /\ lastArg' = 3 * (rx + 1) + (ry + 1)
    /\ lastRet' = (lastOp = "setWorldBounds" \/ (lastRet /\ lastOp # "cameraUpdate"))
    /\ UNCHANGED <<player, platforms, enemies, level, game, input, events, standTime,
                   collectibles, checkpoints, ghost>>

NextCamera ==
    \/ \E t \in CameraTargets : VTargetMoves(t)
    \/ \E width \in WorldWidths : VSetWorldBounds(width)
    \/ VStartShake
    \/ \E gap \in FrameGaps : \E rx \in ShakeChoices(camera) :
          \E ry \in ShakeChoices(camera) : VCameraUpdate(gap, rx, ry)

SpecCamera == InitCamera /\ [][NextCamera]_vars

\* the world of the camera is at least as large as its viewport
WorldCoversViewport(cam) ==
    /\ cam.boundsRight - cam.boundsLeft >= cam.width
    /\ cam.boundsBottom - cam.boundsTop >= cam.height

\* the origin of the viewport that is drawn
RenderedX(cam) == cam.x + cam.shakeOffsetX
RenderedY(cam) == cam.y + cam.shakeOffsetY

\* C25: after every Camera.update, in a world at least as large as the
\* viewport, the drawn viewport origin (position plus shake offset) lies
\* between bounds.left and bounds.right - width and between bounds.top and
\* bounds.bottom - height, also when a level load has just changed the bounds.
C25_ViewportInsideWorld ==
    (lastOp = "cameraUpdate" /\ WorldCoversViewport(camera)) =>
        /\ camera.boundsLeft <= RenderedX(camera)
        /\ RenderedX(camera) <= camera.boundsRight - camera.width
        /\ camera.boundsTop <= RenderedY(camera)
        /\ RenderedY(camera) <= camera.boundsBottom - camera.height

\* the first update after a level load that shrank the world, during a shake,
\* stops the drawn viewport at the right edge
C25_Witness ==
    /\ lastOp = "cameraUpdate"
    /\ lastRet
    /\ camera.shakeOffsetX # 0
    /\ RenderedX(camera) = camera.boundsRight - camera.width
    /\ camera.boundsRight = 16000

----------------------------------------------------------------------------
(* Chasing *)

\* the horizontal centers that Enemy.chase compares
CenterX(o) == o.x + o.width \div 2

\* C26: in every updateAI after which a live enemy is chasing a live player
\* whose center is not the enemy's, the enemy's velocityX is chaseSpeed times
\* the sign of (player center - enemy center), also when the distance lies in
\* the band between detectionRange and 1.5 detectionRange.
C26_ChaseFollowsPlayer ==
    [][(/\ lastOp' = "updateAI"
        /\ enemies'[1].isAlive
        /\ enemies'[1].isChasing
        /\ ~isDead(player)
        /\ CenterX(player) # CenterX(enemies[1]))
       => enemies'[1].velocityX
              = ChaseSpeed * Sign(CenterX(player) - CenterX(enemies[1]))]_vars

----------------------------------------------------------------------------
(* Specification SpecJump: the jump key on level 1's first platform.  The   *)
(* player starts standing on the platform or dropping onto it from the      *)
(* level's start; the key goes down and up during the first frames, and the *)
(* game loop runs on until the player has come down again.                  *)

MaxJumpEvents == 5
MaxJumpPressTime == 450   \* the key events come during the first frames
MaxJumpTime == 3000

\* standing on the first platform, and the level's start above it
JumpStarts == {<<500, 4520>>, <<500, 4000>>}

InitJump ==
    /\ \E pos \in JumpStarts :
          InitLivesAt([AtLevel(1) EXCEPT !.platforms = GroundLevel.platforms,
                                         !.player.x = pos[1], !.player.y = pos[2]], 0)
    /\ ghost = NoGhost
    /\ events = 0
    /\ lastOp = "init"
    /\ lastArg = 0
    /\ lastRet = FALSE
    /\ standTime = 0

JKeyDown ==
    /\ events < MaxJumpEvents
    /\ now <= MaxJumpPressTime
    /\ ~input.keys["jump"]
    /\ input' = handleKeyDown(input, "jump")
    /\ events' = events + 1
    /\ lastOp' = "keydown"
    /\ UNCHANGED <<player, platforms, enemies, level, game, now, standTime, lastArg,
                   lastRet, itemVars>>

JKeyUp ==
    /\ events < MaxJumpEvents
    /\ now <= MaxJumpPressTime
    /\ input.keys["jump"]
    /\ input' = handleKeyUp(input, "jump")
    /\ events' = events + 1
    /\ lastOp' = "keyup"
    /\ UNCHANGED <<player, platforms, enemies, level, game, now, standTime, lastArg,
                   lastRet, itemVars>>

\* the player as Player.handleInput of the coming frame finds it
PlayerAtHandleInput == updatePlayerInput(player, InputUpdate(input))

\* Player.jump is called in the coming frame: handleInput sets velocityY to
\* -jumpPower, a value the physics step never leaves behind
JumpsInFrame ==
    /\ game.state = "playing"
    /\ PlayerAtHandleInput.velocityY # -JumpPower
    /\ HandleInput(PlayerAtHandleInput).velocityY = -JumpPower

\* the coming frame takes the landing branch of handlePlatformCollisions
LandsInFrame ==
    /\ game.state = "playing"
    /\ \E i \in 1..Len(platforms) : LandsOn(PlayerAfterPhysics, platforms[i])

\* one iteration of Game.gameLoop; ghost counts the calls of Player.jump since
\* the last landing (the landing of a frame comes after its jump), lastRet
\* tells whether the frame jumped and lastArg whether it landed
JFrame(gap) ==
    /\ now + gap <= MaxJumpTime
    /\ now <= MaxJumpPressTime \/ ghost.jumps > 0
    /\ now' = now + gap
    /\ \E r \in ShakeChoices(camera) : SetWorld(gameLoop(World, now + gap, r, r))
    /\ ghost' = [ghost EXCEPT
                    !.jumps = IF LandsInFrame THEN 0
                              ELSE IF JumpsInFrame THEN @ + 1 ELSE @,
                    !.groundJumps = IF LandsInFrame THEN 0
                                    ELSE IF JumpsInFrame /\ PlayerAtHandleInput.isGrounded
                                         THEN @ + 1 ELSE @]
    /\ lastOp' = "frame"
    /\ lastArg' = IF LandsInFrame THEN 1 ELSE 0
    /\ lastRet' = JumpsInFrame
    /\ UNCHANGED <<events, standTime>>

NextJump ==
    \/ JKeyDown
    \/ JKeyUp
    \/ \E gap \in FrameGaps : JFrame(gap)

SpecJump == InitJump /\ [][NextJump]_vars

\* C27: between two consecutive landings Player.jump is called at most twice,
\* once from the ground and at most once in the air; a jump in the air comes
\* only after a ground jump made since the last landing; every jump comes in a
\* frame whose jump input is held while it was not held the frame before; a
\* landing leaves canDoubleJump and hasDoubleJumped false.
C27_AtMostTwoJumps ==
    [][lastOp' = "frame" =>
          /\ ghost'.jumps <= 2
          /\ ghost'.groundJumps <= 1
          /\ (JumpsInFrame /\ ~PlayerAtHandleInput.isGrounded) =>
                (ghost.groundJumps = 1 /\ ghost.jumps = 1)
          /\ JumpsInFrame => (~player.keys.jump /\ player'.keys.jump)
          /\ LandsInFrame => (~player'.canDoubleJump /\ ~player'.hasDoubleJumped)]_vars

\* after a ground jump and a double jump the key is pressed a third time in
\* the air: the frame that sees it held does not jump
C27_Witness ==
    /\ lastOp = "frame"
    /\ ghost.jumps = 2
    /\ ghost.groundJumps = 1
    /\ events = 5
    /\ player.keys.jump
    /\ ~lastRet
    /\ player.hasDoubleJumped

----------------------------------------------------------------------------
(* Specification SpecPlatform: a moving platform under Platform.update and  *)
(* Platform.reset                                                           *)

\* level 2's moving platform, and the same platform set to move vertically
MovingPlatforms ==
    {NewPlatform(13000, 2500, 2000, 400, "moving"),
     [NewPlatform(13000, 2500, 2000, 400, "moving") EXCEPT !.moveAxis = "vertical"]}

InitPlatform ==
    /\ \E pl \in MovingPlatforms : platforms = <<pl>>
    /\ player = NewPlayer(Level1.playerStartX, Level1.playerStartY)
    /\ enemies = <<>>
    /\ collectibles = <<>>
    /\ checkpoints = <<>>
    /\ level = Level1
    /\ camera = NewCamera(Canvas.width, Canvas.height, Level1.width, Level1.height)
    /\ input = NewInputManager
    /\ game = NewGame
    /\ ghost = NoGhost
    /\ events = 0
    /\ now = 0
    /\ lastOp = "init"
    /\ lastArg = 0
    /\ lastRet = FALSE
    /\ standTime = 0

MPlatformUpdate(deltaTime) ==
    /\ platforms' = <<PlatformUpdate(platforms[1], deltaTime, player)>>
    /\ lastOp' = "platformUpdate"
    /\ UNCHANGED <<player, enemies, level, game, now, input, events, standTime,
                   lastArg, lastRet, itemVars>>

MPlatformReset ==
    /\ platforms' = <<PlatformReset(platforms[1])>>
    /\ lastOp' = "platformReset"
    /\ UNCHANGED <<player, enemies, level, game, now, input, events, standTime,
                   lastArg, lastRet, itemVars>>

NextPlatform ==
    \/ \E deltaTime \in FrameGaps : MPlatformUpdate(deltaTime)
    \/ MPlatformReset

SpecPlatform == InitPlatform /\ [][NextPlatform]_vars

\* the coordinate the platform moves along, its anchor, and the other pair
MovedCoordinate(pl) == IF pl.moveAxis = "horizontal" THEN pl.x ELSE pl.y
MovedOriginal(pl) == IF pl.moveAxis = "horizontal" THEN pl.originalX ELSE pl.originalY
AtMoveBound(pl) ==
    \/ MovedCoordinate(pl) = MovedOriginal(pl) - MoveDistance
    \/ MovedCoordinate(pl) = MovedOriginal(pl) + MoveDistance

\* C28: after every update of a moving platform the moved coordinate lies in
\* [original - moveDistance, original + moveDistance], the other coordinate
\* is its original value, and moveDirection has changed in the update exactly
\* when the update brought the platform to a bound.
C28_MovingPlatformOscillates ==
    [][lastOp' = "platformUpdate" =>
          /\ MovedCoordinate(platforms'[1]) >= MovedOriginal(platforms[1]) - MoveDistance
          /\ MovedCoordinate(platforms'[1]) <= MovedOriginal(platforms[1]) + MoveDistance
          /\ IF platforms[1].moveAxis = "horizontal"
             THEN platforms'[1].y = platforms[1].originalY
             ELSE platforms'[1].x = platforms[1].originalX
          /\ (platforms'[1].moveDirection # platforms[1].moveDirection)
                <=> AtMoveBound(platforms'[1])]_vars

\* the platform has come back to its lower bound and turned again
C28_Witness ==
    /\ lastOp = "platformUpdate"
    /\ MovedCoordinate(platforms[1]) = MovedOriginal(platforms[1]) - MoveDistance
    /\ platforms[1].moveDirection = 1
    /\ platforms[1].moveAxis = "vertical"

\* the center of the target lies inside the camera's deadzone on both axes
InsideDeadzone(cam, target) ==
    /\ Abs(target.x + target.width \div 2 - (cam.x + cam.width \div 2)) <= cam.deadzoneX
    /\ Abs(target.y + target.height \div 2 - (cam.y + cam.height \div 2)) <= cam.deadzoneY

\* C29: an updateTargetFollowing call made with the target's center inside
\* the deadzone on both axes leaves the camera's x and y unchanged, whatever
\* velocity the camera has from earlier frames.
C29_DeadzoneHoldsCamera ==
    [][(lastOp' = "cameraUpdate" /\ InsideDeadzone(camera, player)) =>
          /\ updateTargetFollowing(camera, player).x = camera.x
          /\ updateTargetFollowing(camera, player).y = camera.y]_vars

\* the horizontal velocities a player can have: none, and full speed either way
TargetVelocities == {-PlayerSpeed, 0, PlayerSpeed}

----------------------------------------------------------------------------
(* Specification SpecPatrol: one patrolling enemy on its platform under     *)
(* Level.update, frame after frame at the display's rate, the player out of *)
(* its detection range; the level can be reset.                             *)

MaxPatrolResets == 1

\* the enemies of the levels that patrol, each with the platform under it:
\* level 2's first (static platform), level 3's first (moving platform),
\* level 4's second (the 60 px bouncy platform), level 3's last (static)
PatrolPlaces ==
    {[platform |-> NewPlatform(3500, 4500, 1800, 400, "static"),
      enemy |-> NewEnemy(3800, 4100, "patrol")],
     [platform |-> NewPlatform(3000, 4500, 1000, 400, "moving"),
      enemy |-> NewEnemy(3200, 4100, "patrol")],
     [platform |-> NewPlatform(5500, 3500, 600, 400, "bouncy"),
      enemy |-> NewEnemy(5700, 3100, "patrol")],
     [platform |-> NewPlatform(17000, 4000, 2000, 400, "static"),
      enemy |-> NewEnemy(17500, 3600, "patrol")]}

\* the time between two frames in ms: the 50 ms cap of gameLoop, and
\* requestAnimationFrame on a 60 Hz and on a 120 Hz display
PatrolGaps == {50, 17, 8}

InitPatrol ==
    /\ \E pp \in PatrolPlaces :
          /\ platforms = <<pp.platform>>
          /\ enemies = <<pp.enemy>>
    /\ \E gap \in PatrolGaps : lastArg = gap
    /\ player = NewPlayer(Level1.playerStartX, Level1.playerStartY)
    /\ collectibles = <<>>
    /\ checkpoints = <<>>
    /\ level = Level1
    /\ camera = NewCamera(Canvas.width, Canvas.height, Level1.width, Level1.height)
    /\ input = NewInputManager
    /\ game = NewGame
    /\ ghost = NoGhost
    /\ events = 0
    /\ now = 0
    /\ lastOp = "init"
    /\ lastRet = FALSE
    /\ standTime = 0

\* the platform and enemy loops of Level.update for one frame of lastArg ms;
\* ghost.sinceTurn is the deltaTime that updateTurnCooldown was called with
\* since the enemy last turned (the frame of the turn included, counted up
\* to the cooldown's length), ghost.turned whether it has turned at all
PFrame ==
    /\ enemies # <<>>
    /\ enemies[1].y <= MaxFallY
    /\ platforms' = LevelUpdatePlatforms(platforms, lastArg, player)
    /\ enemies' = LevelUpdateEnemies(enemies, lastArg, platforms', player)
    /\ ghost' = IF enemies'[1].direction # enemies[1].direction
                THEN [ghost EXCEPT !.sinceTurn = lastArg, !.turned = TRUE]
                ELSE [ghost EXCEPT !.sinceTurn = Min(@ + lastArg, MaxTurnCooldown)]
    /\ lastOp' = "frame"
    /\ UNCHANGED <<player, level, game, now, input, events, standTime, lastArg, lastRet,
                   collectibles, checkpoints, camera>>

\* Level.reset: Platform.reset and Enemy.reset, which ends the cooldown
PLevelReset ==
    /\ events < MaxPatrolResets
    /\ enemies # <<>>
    /\ platforms' = [i \in 1..Len(platforms) |-> PlatformReset(platforms[i])]
    /\ enemies' = [i \in 1..Len(enemies) |-> EnemyReset(enemies[i])]
    /\ ghost' = [ghost EXCEPT !.sinceTurn = 0, !.turned = FALSE]
    /\ events' = events + 1
    /\ lastOp' = "levelReset"
    /\ UNCHANGED <<player, level, game, now, input, standTime, lastArg, lastRet,
                   collectibles, checkpoints, camera>>

NextPatrol ==
    \/ PFrame
    \/ PLevelReset

SpecPatrol == InitPatrol /\ [][NextPatrol]_vars

\* C31: a frame in which the patrolling enemy's direction is reversed comes
\* only when updateTurnCooldown has been given at least maxTurnCooldown ms
\* since the reversal before it (or there was none since the enemy was
\* created or reset), and while the cooldown runs changeDirection leaves the
\* direction as it is.
C31_TurnsKeepCooldown ==
    [][lastOp' = "frame" =>
          /\ (enemies'[1].direction # enemies[1].direction /\ ghost.turned) =>
                ghost.sinceTurn >= MaxTurnCooldown
          /\ enemies[1].turnCooldown > 0 =>
                changeDirection(enemies[1]).direction = enemies[1].direction]_vars

\* the enemy has turned a second time, the cooldown of the first turn over
C31_Witness ==
    /\ lastOp = "frame"
    /\ ghost.turned
    /\ ghost.sinceTurn = lastArg
    /\ enemies[1].direction = 1
    /\ enemies[1].turnCooldown > 0
    /\ enemies[1].x < enemies[1].startX

\* enemy e has platform pl under its feet: their extents overlap horizontally
\* and the feet are on the platform's top or at most one frame of gravity off it
StandsOver(e, pl) ==
    /\ e.x < pl.x + pl.width
    /\ e.x + e.width > pl.x
    /\ Abs(pl.y - (e.y + e.height)) <= EnemyGravity

HasFooting(e, plats) == \E i \in 1..Len(plats) : StandsOver(e, plats[i])

\* C32: a patrolling enemy that stands on a platform, no player in range,
\* still stands over a platform after every frame and does not start to fall.
C32_PatrolKeepsFooting ==
    [][(lastOp' = "frame" /\ HasFooting(enemies[1], platforms)) =>
          /\ HasFooting(enemies'[1], platforms')
          /\ enemies'[1].velocityY <= EnemyGravity]_vars

----------------------------------------------------------------------------
(* Specification SpecRestart: games in progress on their last lives, with  *)
(* the frames, the keyboard shortcuts and the buttons.                     *)

MaxRestartEvents == 1

\* a keydown of one of the shortcut keys
RShortcut(code) ==
    /\ events < MaxRestartEvents
    /\ events' = events + 1
    /\ GStep(keyboardShortcut(
                 IF code = "Escape"
                 THEN [World EXCEPT !.input = handleKeyDown(input, "pause")]
                 ELSE World,
                 code, now),
             code, 0, code = "Enter" /\ game.state = "menu", ghost.expectedScore)
    /\ UNCHANGED now

\* a click on a button
RButton(b) ==
    /\ events < MaxRestartEvents
    /\ events' = events + 1
    /\ GStep(IF b = "startBtn" THEN startGame(World, now)
             ELSE IF b = "restartBtn" THEN restartGame(World, now)
             ELSE IF b = "nextLevelBtn" THEN nextLevel(World, now)
             ELSE IF b = "levelRestartBtn" THEN restartLevel(World, now)
             ELSE showMainMenu(World),
             b, 0, b \in {"startBtn", "restartBtn", "nextLevelBtn"},
             ghost.expectedScore)
    /\ UNCHANGED now

NextRestart ==
    \/ \E gap \in FrameGaps : LFrame(gap)
    \/ \E code \in ShortcutCodes : RShortcut(code)
    \/ \E b \in Buttons : RButton(b)

SpecRestart == InitLives /\ [][NextRestart]_vars

\* C33: whenever the game is in state 'playing' there is at least one life
\* left.
C33_PlayingHasLives == game.state = "playing" => game.lives >= 1

\* C34: a playing frame that takes the last life ends in state 'gameOver',
\* also when the level is completed in that frame; and a frame in which the
\* level is completed does not end in 'gameOver'.
C34_LastLifeEndsGame ==
    [][(game.state = "playing" /\ lastOp' = "frame") =>
          /\ (game.lives > 0 /\ game'.lives = 0) => game'.state = "gameOver"
          /\ (~level.completed /\ level'.completed /\ game'.lives > 0) =>
                game'.state # "gameOver"]_vars

----------------------------------------------------------------------------
(* Specification SpecRevive: playing frames on the crumbling platform of   *)
(* level 4 that carries a chasing enemy and a health item next to each     *)
(* other; the player, with its last health points, comes down on it from   *)
(* the top of a jump.                                                      *)

MaxReviveEvents == 1     \* number of key events delivered in a run
MaxReviveTime == 600     \* frames follow each other for this many ms
\* the platforms of level 4 around the health item, its enemy and the item
ReviveLedge ==
    [AtLevel(4) EXCEPT
        !.platforms = <<NewPlatform(7000, 2500, 1200, 400, "moving"),
                        NewPlatform(9000, 3000, 800, 400, "crumbling"),
                        NewPlatform(11000, 2000, 1000, 400, "bouncy")>>,
        !.enemies = <<[NewEnemy(9200, 2600, "chase") EXCEPT !.y = 2680]>>,
        !.collectibles = <<NewCollectible(9400, 2600, "health")>>,
        !.level = NewLevel(22000, 500, 4000, 20200, 3600, 0)]
\* where the player is when the run starts: at the top of a jump (the 19th
\* frame after the jump), in the air between the crumbling platform and the
\* bouncy one to its right
ReviveXs == {9900, 9920, 9940, 9960, 9980, 10000, 10020, 10040}
ReviveYs == {1900, 2020}
ReviveHeld == {"left", "right"}

InitRevive ==
    /\ \E x \in ReviveXs, y \in ReviveYs, a \in ReviveHeld :
          InitLivesAt([ReviveLedge EXCEPT
                          !.player.x = x, !.player.y = y,
                          !.player.velocityY = 19 * PlayerGravity - JumpPower,
                          !.player.health = EnemyDamage,
                          !.input = handleKeyDown(NewInputManager, a)], 0)
    /\ ghost = [NoGhost EXCEPT !.prevState = "playing"]
    /\ events = 0
    /\ lastOp = "init"
    /\ lastArg = 0
    /\ lastRet = FALSE
    /\ standTime = 0

\* the enemy loop of handleCollisions takes the last health points of the
\* player that Level.update returned in l1
EnemyKillsFrom(w, l1, currentTime) ==
    /\ ~isDead(l1.player)
    /\ isDead(HandleEnemyCollisionsFrom(
                  [enemies |-> l1.enemies, player |-> l1.player, camera |-> w.camera],
                  1, currentTime).player)

EnemyKills(w, deltaTime, currentTime) ==
    EnemyKillsFrom(
        w,
        LevelUpdate(w.platforms, w.enemies, w.collectibles, w.checkpoints, w.level,
                    deltaTime,
                    PlayerUpdate(updatePlayerInput(w.player, w.input), w.platforms,
                                 currentTime)),
        currentTime)

\* one iteration of Game.gameLoop, gap ms after the previous one; lastRet
\* tells whether the enemy loop of handleCollisions killed the player
RFrame(gap) ==
    /\ player.y <= MaxFallY
    /\ now + gap <= MaxReviveTime
    /\ now' = now + gap
    /\ \E r \in ShakeChoices(camera) : SetWorld(gameLoop(World, now + gap, r, r))
    /\ ghost' = [ghost EXCEPT !.prevState = game.state]
    /\ lastOp' = "frame"
    /\ lastArg' = gap
    /\ lastRet' = (/\ game.state = "playing"
                   /\ EnemyKills([World EXCEPT !.input = InputUpdate(input)],
                                 Min(now + gap - game.lastFrameTime, MaxDeltaTime),
                                 now + gap))
    /\ UNCHANGED <<events, standTime>>

RKeyDown(a) ==
    /\ events < MaxReviveEvents
    /\ events' = events + 1
    /\ ~input.keys[a]
    /\ GStep([World EXCEPT !.input = handleKeyDown(input, a)], "keydown", 0, FALSE,
             ghost.expectedScore)
    /\ UNCHANGED now

RKeyUp(a) ==
    /\ events < MaxReviveEvents
    /\ events' = events + 1
    /\ input.keys[a]
    /\ GStep([World EXCEPT !.input = handleKeyUp(input, a)], "keyup", 0, FALSE,
             ghost.expectedScore)
    /\ UNCHANGED now

NextRevive ==
    \/ \E a \in ReviveHeld : RKeyDown(a)
    \/ \E a \in ReviveHeld : RKeyUp(a)
    \/ \E gap \in FrameGaps : RFrame(gap)

SpecRevive == InitRevive /\ [][NextRevive]_vars

\* C35: a playing frame in which an enemy's damage takes the player's last
\* health points costs a life: the player is still dead when
\* checkGameConditions runs.
C35_KilledPlayerLosesLife ==
    [][(lastOp' = "frame" /\ lastRet') => game'.lives = game.lives - 1]_vars

----------------------------------------------------------------------------
(* Specification SpecRespawn: playing frames around the second checkpoint  *)
(* of level 3, which stands next to the platform of the chasing enemy; the *)
(* player arrives with few health points left, or falls below the level.   *)

\* the start platform of level 3 and the objects around its second checkpoint
RespawnLedge ==
    [AtLevel(3) EXCEPT
        !.platforms = <<NewPlatform(0, 5000, 2000, 400, "static"),
                        NewPlatform(13000, 3500, 1000, 400, "static")>>,
        !.enemies = <<[NewEnemy(13200, 3100, "chase") EXCEPT !.y = 3180]>>,
        !.collectibles = <<NewCollectible(13400, 3100, "coin")>>,
        !.checkpoints = <<NewCheckpoint(12500, 2860)>>,
        !.level = NewLevel(20000, 500, 4500, 18200, 3600, 0)]
\* where the player is when the run starts: in the air left of the
\* checkpoint, inside its radius, and below the level
RespawnPositions == {<<12000, 2700>>, <<12500, 2700>>, <<12500, 9995>>}
RespawnHealths == {EnemyDamage, MaxHealth}
RespawnLives == {2}
RespawnHeld == {"left", "right"}

InitRespawn ==
    /\ \E pos \in RespawnPositions, h \in RespawnHealths, lives \in RespawnLives,
          a \in RespawnHeld :
          InitLivesAt([RespawnLedge EXCEPT
                          !.game.lives = lives,
                          !.game.lastFrameTime = LivesNow,
                          !.level.startTime = LivesNow - LivesPlayed,
                          !.player.x = pos[1], !.player.y = pos[2],
                          !.player.health = h,
                          !.input = handleKeyDown(NewInputManager, a)], LivesNow)
    /\ ghost = [NoGhost EXCEPT !.prevState = "playing"]
    /\ events = 0
    /\ lastOp = "init"
    /\ lastArg = 0
    /\ lastRet = FALSE
    /\ standTime = 0

SpecRespawn == InitRespawn /\ [][NextLives]_vars

\* the player as Level.update receives it in the frame that starts in the
\* current state and runs at time currentTime
PlayerAtLevelUpdate(currentTime) ==
    PlayerUpdate(updatePlayerInput(player, InputUpdate(input)), platforms, currentTime)

\* C36: the player is alive after every respawn of checkGameConditions: the
\* health stored with a checkpoint is never 0, and no checkpoint is
\* activated in a frame whose Level.update receives a dead player.
C36_RespawnedPlayerAlive ==
    [][(lastOp' = "frame" /\ game.state = "playing") =>
          /\ player'.lastCheckpointHealth > 0
          /\ (lastRet' /\ game.lives > 1) =>
                /\ player'.health > 0
                /\ player'.health = player'.lastCheckpointHealth
          /\ isDead(PlayerAtLevelUpdate(now')) =>
                \A i \in 1..Len(checkpoints) :
                    checkpoints'[i].activated = checkpoints[i].activated]_vars

\* a frame has just respawned the player at the checkpoint it activated
\* with its last health points
C36_Witness ==
    /\ lastOp = "frame"
    /\ lastRet
    /\ game.state = "playing"
    /\ checkpoints[1].activated
    /\ player.health = EnemyDamage
    /\ player.x = player.checkpointX
    /\ player.y = player.checkpointY
    /\ player.checkpointX = checkpoints[1].x + checkpoints[1].width \div 2
                            - player.width \div 2

----------------------------------------------------------------------------
(* Specification SpecScore: the playing frames of SpecLives, and the       *)
(* next-level button of the level-complete screen.                         *)

NNextLevel ==
    /\ game.state = "levelComplete"
    /\ GStep(nextLevel(World, now), "nextLevelBtn", 0, TRUE, 0)
    /\ UNCHANGED <<now, events>>

NextScore ==
    \/ \E a \in GameKeys : LKeyDown(a)
    \/ \E a \in GameKeys : LKeyUp(a)
    \/ \E gap \in FrameGaps : LFrame(gap)
    \/ NNextLevel

SpecScore == InitLives /\ [][NextScore]_vars

\* C37: totalScore counts the final score of a completed level once: the
\* nextLevel that follows a completion leaves totalScore at what it was when
\* the level was loaded plus the level's final score (collected + time bonus
\* + health bonus).
C37_TotalCountsLevelOnce ==
    [][(lastOp' = "nextLevelBtn" /\ game.state = "levelComplete" /\ level.completed) =>
          game'.totalScore = ghost.levelTotal + game.score]_vars

----------------------------------------------------------------------------
(* Specification SpecGoal: playing frames on each level, the hand-authored *)
(* ones and the first procedural ones, from the moment it is loaded.       *)

MaxGoalLevel == 7        \* the levels 1..MaxGoalLevel are loaded

InitGoal ==
    /\ \E n \in 1..MaxGoalLevel :
          InitLivesAt([AtLevel(n) EXCEPT !.game.lastFrameTime = LivesNow,
                                         !.level.startTime = LivesNow], LivesNow)
    /\ ghost = [NoGhost EXCEPT !.prevState = "playing"]
    /\ events = 0
    /\ lastOp = "init"
    /\ lastArg = 0
    /\ lastRet = FALSE
    /\ standTime = 0

SpecGoal == InitGoal /\ [][NextLives]_vars

\* the position Player.constrainToWorld leaves of a player put with its
\* center on the goal of lv: the allowed position nearest to the goal
NearestToGoal(p, lv, currentTime) ==
    ConstrainToWorld([p EXCEPT !.x = lv.goalX - p.width \div 2,
                               !.y = lv.goalY - p.height \div 2], currentTime)

\* C38: the level being played can be completed: some player position that
\* constrainToWorld allows has its center within 50 px of the goal.
C38_GoalWithinReach ==
    game.state = "playing" =>
        checkLevelCompletion([level EXCEPT !.completed = FALSE],
                             NearestToGoal(player, level, now)).completed

----------------------------------------------------------------------------
(* Specification SpecMobile: the InputManager with the keyboard and the    *)
(* on-screen mobile buttons, whose events arrive in any order between the  *)
(* per-frame calls of update; no touch gesture on the canvas.              *)

MobileActions == {"left", "right", "jump"}

\* the listeners of setupMobileButton: touchstart and mousedown
mobileButtonDown(im, action) == [im EXCEPT !.mobileControls[action] = TRUE]

\* the listeners of setupMobileButton: touchend, mouseup and mouseleave
mobileButtonUp(im, action) == [im EXCEPT !.mobileControls[action] = FALSE]

\* ghost.held is the set of actions whose key is down on the keyboard
MStep(im, op, held) ==
    /\ input' = im
    /\ ghost' = [ghost EXCEPT !.held = held]
    /\ lastOp' = op
    /\ lastArg' = 0
    /\ lastRet' = FALSE
    /\ UNCHANGED <<player, platforms, enemies, level, game, now, events, standTime,
                   collectibles, checkpoints, camera>>

MKeyDown(a) ==
    /\ a \notin ghost.held
    /\ MStep(handleKeyDown(input, a), "keydown", ghost.held \cup {a})

MKeyUp(a) ==
    /\ a \in ghost.held
    /\ MStep(handleKeyUp(input, a), "keyup", ghost.held \ {a})

MButtonDown(a) ==
    /\ ~input.mobileControls[a]
    /\ MStep(mobileButtonDown(input, a), "mousedown", ghost.held)

MButtonUp(a) ==
    /\ input.mobileControls[a]
    /\ MStep(mobileButtonUp(input, a), "mouseup", ghost.held)

NextMobile ==
    \/ \E a \in MobileActions : MKeyDown(a)
    \/ \E a \in MobileActions : MKeyUp(a)
    \/ \E a \in MobileActions : MButtonDown(a)
    \/ \E a \in MobileActions : MButtonUp(a)
    \/ IUpdate

SpecMobile == InitInput /\ [][NextMobile]_vars

\* C39: after InputManager.update, isPressed(a) for a in {left, right,
\* jump} holds only if a key of a is down or the mobile button of a is held.
C39_PressedOnlyWhileHeld ==
    lastOp = "inputUpdate" =>
        \A a \in MobileActions :
            isPressed(input, a) => (a \in ghost.held \/ input.mobileControls[a])

----------------------------------------------------------------------------
(* Specification SpecReload: the playing frames of SpecStomp on level 3,   *)
(* and the restart button of the pause and level-complete screens.         *)

XRestartLevel ==
    /\ events < MaxStompEvents
    /\ events' = events + 1
    /\ GStep(restartLevel(World, now), "levelRestartBtn", 0, FALSE, ghost.expectedScore)
    /\ UNCHANGED now

NextReload ==
    \/ \E a \in GameKeys : SKeyDown(a)
    \/ \E a \in GameKeys : SKeyUp(a)
    \/ \E gap \in FrameGaps : SFrame(gap)
    \/ XRestartLevel

SpecReload == InitStomp /\ [][NextReload]_vars

\* C40: after restartLevel the level holds every enemy created when it was
\* loaded, each alive and with full health.
C40_RestartRestoresEnemies ==
    [][lastOp' = "levelRestartBtn" =>
          /\ Len(enemies') = Len(GenerateLevel(game.currentLevelNumber).enemies)
          /\ \A i \in 1..Len(enemies') :
                enemies'[i].isAlive /\ enemies'[i].health = EnemyMaxHealth]_vars

====
